---- MODULE Spec2Model ----
(***************************************************************************)
(* WeMaps backend: the room / membership life cycle of RoomService         *)
(* (createRoom, joinRoom, leaveRoom, getRoomDetails, cleanupExpiredRooms), *)
(* the Redis join lock, the Redis snapshot cache and the room-code         *)
(* reservation of generateRoomCode.                                        *)
(*                                                                         *)
(* Every `await` of the source is a step of the calling worker, so that    *)
(* the workers interleave exactly where the code can be suspended.  The    *)
(* durable store is PostgreSQL at read committed: a statement reads the    *)
(* committed rows, an UPDATE of a row another open transaction has         *)
(* written waits for that transaction, and a transaction's writes become   *)
(* visible together at its commit.                                         *)
(***************************************************************************)
EXTENDS Integers, Sequences, FiniteSets, TLC

\* ------------------------------------------------------------ bounds
NumProcs == 2      \* concurrent workers (independent requests)
MaxRooms == 2      \* rooms that are ever created
NumCodes == 1      \* candidate codes generateRandomCode draws from
MaxCalls == 4      \* service calls started in one behaviour of Spec
MaxCap == 2        \* largest maxMembers a request asks for

\* ------------------------------------------------- program constants
MinCap == 2            \* createRoomSchema: maxMembers min(2)
maxAttempts == 10      \* generateRoomCode: candidates tried
Absent == 0            \* redis GET of a key that does not exist (null)
Reserved == -1         \* the string 'reserved' stored by generateRoomCode

Procs == 1..NumProcs
\* one user more than the largest room holds, so that a full room is asked
\* for one more slot
Users == 1..(MaxCap + 1)
RoomIds == 1..MaxRooms
Codes == 1..NumCodes
Caps == MinCap..MaxCap
\* keys lock:room:<roomId>:join; roomId may be the string 'reserved'
LockKeys == RoomIds \cup {Reserved}

VARIABLES
  rooms,     \* table rooms: room id -> row (exists = FALSE: no such row)
  members,   \* table room_members: a set of rows
  kv_lock,   \* redis lock:room:<id>:join -> token (Absent: no key)
  kv_code,   \* redis room_code:<code> -> Reserved | room id | Absent
  kv_room,   \* redis room:<id> -> cached snapshot
  kv_mset,   \* redis room:<id>:members -> set of user ids
  kv_loc,    \* redis location:<room>:<user> -> sample, as the set of
             \* <<room, user, sample>> of the keys that exist
  kv_chat,   \* redis chat:room:<id>:messages -> list (head first)
  pc,        \* per worker: the await it is suspended at
  lv,        \* per worker: the locals of the call in progress
  ret,       \* per worker: what its last call returned or threw
  calls,     \* service calls started so far
  script,    \* SpecScript: the calls of the scenario, in order
  spos,      \* SpecScript: calls of the script started so far
  conn,      \* socket.io: the users whose socket is connected
  subs,      \* socket.io room `room:<id>`: <<room, user>> of its sockets
  topic,     \* redis pub/sub: published messages the subscriber has not
             \* yet been called with, in publishing order
  inbox      \* socket.io: <<user, event>> emitted to a user's socket

dbVars == <<rooms, members>>
cacheVars == <<kv_code, kv_room, kv_mset, kv_loc, kv_chat>>
scriptVars == <<script, spos>>
sockVars == <<conn, subs, topic, inbox>>
vars == <<rooms, members, kv_lock, kv_code, kv_room, kv_mset, kv_loc,
          kv_chat,
          pc, lv, ret, calls, script, spos, conn, subs, topic, inbox>>

\* ------------------------------------------------------------ values
NoRoom == [exists |-> FALSE, code |-> 0, cap |-> 0, status |-> "none",
           past |-> FALSE, completed |-> FALSE, creator |-> 0]

\* a cached snapshot: JSON of the room row plus memberCount, and the
\* member list when the cached object had one (hasMembers)
NoSnap == [present |-> FALSE, memberCount |-> 0, hasMembers |-> FALSE,
           list |-> {}, status |-> "none"]

LvInit == [op |-> "none", user |-> 0, room |-> 0, code |-> 0, cap |-> 0,
           att |-> 0, tok |-> 0, n |-> 0, row |-> 0, role |-> "none",
           pend |-> 0, next |-> 0, err |-> "none", flag |-> FALSE,
           snap |-> NoSnap, todo |-> {}]

RetInit == [op |-> "none", user |-> 0, room |-> 0, code |-> 0,
            res |-> "none", flag |-> FALSE, tok |-> 0, order |-> 0,
            snap |-> NoSnap, hist |-> <<>>]

MinOf(S) == CHOOSE x \in S : \A y \in S : x <= y
MaxOf(a, b) == IF a >= b THEN a ELSE b

\* ----------------------------------------------------- durable reads
ExistingRooms == {r \in RoomIds : rooms[r].exists}
RoomsWithCode(c) == {r \in ExistingRooms : rooms[r].code = c}
RowsOf(r, u) == {m \in members : m.room = r /\ m.user = u}
ActiveMembers(r) == {m \in members : m.room = r /\ m.status = "active"}
RowById(id) == CHOOSE m \in members : m.id = id
\* uuidv4(): an id no existing row has
FreshRoomId == MinOf(RoomIds \ ExistingRooms)
FreshRowId == Cardinality(members) + 1

\* a row another open transaction has updated and not yet committed
LockedByOther(id, p) == \E q \in Procs \ {p} : lv[q].pend = id

\* ------------------------------------------------------------- return
\* the call returns or throws: the route handler holds the outcome
Return(p, r) ==
  /\ pc' = [pc EXCEPT ![p] = "done"]
  /\ lv' = [lv EXCEPT ![p] = LvInit]
  /\ ret' = [ret EXCEPT ![p] = r]

Goto(p, label, locals) ==
  /\ pc' = [pc EXCEPT ![p] = label]
  /\ lv' = [lv EXCEPT ![p] = locals]
  /\ UNCHANGED ret

Outcome(p, res) ==
  [RetInit EXCEPT !.op = lv[p].op, !.user = lv[p].user, !.room = lv[p].room,
                  !.code = lv[p].code, !.res = res, !.tok = lv[p].tok,
                  !.flag = lv[p].flag]

\* the route handler sends the response: res.json(...) / res.status(...)
Respond(p) ==
  /\ pc[p] = "done"
  /\ pc' = [pc EXCEPT ![p] = "idle"]
  /\ ret' = [ret EXCEPT ![p] = RetInit]
  /\ UNCHANGED <<dbVars, kv_lock, cacheVars, lv, calls, scriptVars, sockVars>>

\* --------------------------------------------------------------- Init
Init ==
  /\ rooms = [r \in RoomIds |-> NoRoom]
  /\ members = {}
  /\ kv_lock = [k \in LockKeys |-> Absent]
  /\ kv_code = [c \in Codes |-> Absent]
  /\ kv_room = [r \in RoomIds |-> NoSnap]
  /\ kv_mset = [r \in RoomIds |-> {}]
  /\ kv_loc = {}
  /\ kv_chat = [r \in RoomIds |-> <<>>]
  /\ pc = [p \in Procs |-> "idle"]
  /\ lv = [p \in Procs |-> LvInit]
  /\ ret = [p \in Procs |-> RetInit]
  /\ calls = 0
  /\ script = <<>>
  /\ spos = 0
  /\ conn = {}
  /\ subs = {}
  /\ topic = <<>>
  /\ inbox = {}

\* ----------------------------------------- cacheRoomData / member count
\* roomData.members?.length || roomData.memberCount || 0
CacheMemberCount(hasMembers, len, hasCount, count) ==
  IF hasMembers /\ len # 0 THEN len
  ELSE IF hasCount /\ count # 0 THEN count
  ELSE 0

\* Math.max(0, (room.memberCount || 0) + delta)
NewMemberCount(count, delta) == MaxOf(0, count + delta)

\* ------------------------------------------------ generateRoomCode
\* one more candidate failed: loop again or give up
NextAttempt(p) ==
  IF lv[p].att + 1 < maxAttempts
  THEN Goto(p, "G_db", [lv[p] EXCEPT !.att = @ + 1, !.code = 0])
  ELSE Return(p, Outcome(p, "AllocationExhausted"))

BeginCreate(p, u, cap) ==
  /\ pc[p] = "idle"
  /\ Cardinality(ExistingRooms)
       + Cardinality({q \in Procs : lv[q].op = "create"}) < MaxRooms
  /\ Goto(p, "G_db", [LvInit EXCEPT !.op = "create", !.user = u, !.cap = cap])
  /\ calls' = calls + 1
  /\ UNCHANGED <<dbVars, kv_lock, cacheVars>>

\* generateRandomCode(), then prisma.room.findUnique({room_code: code})
G_db(p) ==
  /\ pc[p] = "G_db"
  /\ \E c \in Codes :
       IF RoomsWithCode(c) # {}
       THEN NextAttempt(p)
       ELSE Goto(p, "G_get", [lv[p] EXCEPT !.code = c])
  /\ UNCHANGED <<dbVars, kv_lock, cacheVars, calls, scriptVars, sockVars>>

\* redisClient.get(`room_code:${code}`)
G_get(p) ==
  /\ pc[p] = "G_get"
  /\ IF kv_code[lv[p].code] # Absent
     THEN NextAttempt(p)
     ELSE Goto(p, "G_set", lv[p])
  /\ UNCHANGED <<dbVars, kv_lock, cacheVars, calls, scriptVars, sockVars>>

\* redisClient.setEx(`room_code:${code}`, 300, 'reserved'); return code
G_set(p) ==
  /\ pc[p] = "G_set"
  /\ kv_code' = [kv_code EXCEPT ![lv[p].code] = Reserved]
  /\ Goto(p, "C_tx", lv[p])
  /\ UNCHANGED <<dbVars, kv_lock, kv_room, kv_mset, kv_loc, kv_chat,
                 calls, scriptVars, sockVars>>

\* ------------------------------------------------------- createRoom
NewRoomRow(c, cap, u) ==
  [exists |-> TRUE, code |-> c, cap |-> cap, status |-> "active",
   past |-> FALSE, completed |-> FALSE, creator |-> u]

OwnerRow(id, r, u) ==
  [id |-> id, room |-> r, user |-> u, role |-> "owner", status |-> "active",
   join_order |-> 1]

\* prisma.$transaction: room.create, roomMember.create, commit.  The
\* unique index on room_code rejects a second room with the code.
C_tx(p) ==
  /\ pc[p] = "C_tx"
  /\ IF RoomsWithCode(lv[p].code) # {}
     THEN /\ Goto(p, "C_fail", [lv[p] EXCEPT !.err = "Conflict"])
          /\ UNCHANGED dbVars
     ELSE LET r == FreshRoomId IN
          /\ rooms' = [rooms EXCEPT ![r] =
                         NewRoomRow(lv[p].code, lv[p].cap, lv[p].user)]
          /\ members' = members \cup {OwnerRow(FreshRowId, r, lv[p].user)}
          /\ Goto(p, "C_cache", [lv[p] EXCEPT !.room = r])
  /\ UNCHANGED <<kv_lock, cacheVars, calls, scriptVars, sockVars>>

\* cacheRoomData(room.id, {...room, memberCount: 1}): the room row has no
\* members field, so only the snapshot is written
C_cache(p) ==
  /\ pc[p] = "C_cache"
  /\ kv_room' = [kv_room EXCEPT ![lv[p].room] =
       [present |-> TRUE,
        memberCount |-> CacheMemberCount(FALSE, 0, TRUE, 1),
        hasMembers |-> FALSE, list |-> {},
        status |-> "active"]]
  /\ Goto(p, "C_map", lv[p])
  /\ UNCHANGED <<dbVars, kv_lock, kv_code, kv_mset, kv_loc, kv_chat,
                 calls, scriptVars, sockVars>>

\* redisClient.setEx(`room_code:${roomCode}`, ttl, room.id); return room
C_map(p) ==
  /\ pc[p] = "C_map"
  /\ kv_code' = [kv_code EXCEPT ![lv[p].code] = lv[p].room]
  /\ Return(p, Outcome(p, "ok"))
  /\ UNCHANGED <<dbVars, kv_lock, kv_room, kv_mset, kv_loc, kv_chat,
                 calls, scriptVars, sockVars>>

\* mutant: the reservation is left in place
ReleasedCodes_kept(c) == kv_code

\* releaseRoomCode(code): redisClient.del(`room_code:${code}`)
ReleasedCodes(c) == [kv_code EXCEPT ![c] = Absent]

\* catch (error) { await releaseRoomCode(roomCode); throw error; }
C_fail(p) ==
  /\ pc[p] = "C_fail"
  /\ kv_code' = ReleasedCodes(lv[p].code)
  /\ Return(p, Outcome(p, lv[p].err))
  /\ UNCHANGED <<dbVars, kv_lock, kv_room, kv_mset, kv_loc, kv_chat,
                 calls, scriptVars, sockVars>>

\* ----------------------------------------------------------- joinRoom
BeginJoin(p, c, u) ==
  /\ pc[p] = "idle"
  /\ Goto(p, "J_get", [LvInit EXCEPT !.op = "join", !.code = c, !.user = u])
  /\ calls' = calls + 1
  /\ UNCHANGED <<dbVars, kv_lock, cacheVars>>

\* let roomId = await redisClient.get(`room_code:${roomCode}`)
J_get(p) ==
  /\ pc[p] = "J_get"
  /\ IF kv_code[lv[p].code] # Absent
     THEN Goto(p, "J_lock", [lv[p] EXCEPT !.room = kv_code[lv[p].code]])
     ELSE Goto(p, "J_db", lv[p])
  /\ UNCHANGED <<dbVars, kv_lock, cacheVars, calls, scriptVars, sockVars>>

\* prisma.room.findUnique({room_code}); !room || room.status !== 'active'
J_db(p) ==
  /\ pc[p] = "J_db"
  /\ LET found == {r \in RoomsWithCode(lv[p].code) :
                     rooms[r].status = "active"} IN
     IF found = {}
     THEN Return(p, Outcome(p, "NotFound"))
     ELSE Goto(p, "J_lock", [lv[p] EXCEPT !.room = MinOf(found)])
  /\ UNCHANGED <<dbVars, kv_lock, cacheVars, calls, scriptVars, sockVars>>

\* const lockValue = uuidv4(): a value no lock and no call holds
FreshToken ==
  MinOf((1..(NumProcs + 1)) \ ({lv[q].tok : q \in Procs}
                                 \cup {ret[q].tok : q \in Procs}
                                 \cup {kv_lock[k] : k \in LockKeys}))

\* mutant: SET without NX, the key is overwritten
LockAcquired_noNX(k) == TRUE

\* SET lockKey lockValue PX 10000 NX: set only when the key is absent
LockAcquired(k) == kv_lock[k] = Absent

\* uuidv4() for lockValue, then the SET NX; a held lock throws at once
J_lock(p) ==
  /\ pc[p] = "J_lock"
  /\ LET t == FreshToken IN
     IF LockAcquired(lv[p].room)
     THEN /\ kv_lock' = [kv_lock EXCEPT ![lv[p].room] = t]
          /\ Goto(p, "J_tx1", [lv[p] EXCEPT !.tok = t])
     ELSE /\ Return(p, Outcome(p, "Busy"))
          /\ UNCHANGED <<kv_lock>>
  /\ UNCHANGED <<dbVars, cacheVars, calls, scriptVars, sockVars>>

\* mutant: the comparison is off by one
RoomIsFull_offByOne(n, cap) == n > cap

\* room.members.length >= room.max_members
RoomIsFull(n, cap) == n >= cap

\* tx.room.findUnique({id: roomId}, include active members) and the four
\* checks that follow it
JoinCheck(r) ==
  IF r \notin RoomIds \/ ~rooms[r].exists THEN "NotFound"
  ELSE IF rooms[r].status # "active" THEN "Inactive"
  ELSE IF rooms[r].past THEN "Expired"
  ELSE IF RoomIsFull(Cardinality(ActiveMembers(r)), rooms[r].cap)
       THEN "RoomFull"
  ELSE "ok"

J_tx1(p) ==
  /\ pc[p] = "J_tx1"
  /\ LET r == lv[p].room
         chk == JoinCheck(r) IN
     IF chk # "ok"
     THEN Goto(p, "J_rel", [lv[p] EXCEPT !.err = chk])
     ELSE Goto(p, "J_tx2",
               [lv[p] EXCEPT !.n = Cardinality(ActiveMembers(r))])
  /\ UNCHANGED <<dbVars, kv_lock, cacheVars, calls, scriptVars, sockVars>>

\* tx.roomMember.findFirst({room_id, user_id})
J_tx2(p) ==
  /\ pc[p] = "J_tx2"
  /\ LET rows == RowsOf(lv[p].room, lv[p].user) IN
     IF rows = {}
     THEN Goto(p, "J_tx3", [lv[p] EXCEPT !.row = 0])
     ELSE \E m \in rows :
            IF m.status = "active"
            THEN Goto(p, "J_rel", [lv[p] EXCEPT !.err = "AlreadyMember"])
            ELSE Goto(p, "J_tx3", [lv[p] EXCEPT !.row = m.id])
  /\ UNCHANGED <<dbVars, kv_lock, cacheVars, calls, scriptVars, sockVars>>

\* mutant: the rejoin assigns a join_order again
Reactivated_reordered(m) ==
  [m EXCEPT !.status = "active", !.join_order = @ + 1]

\* tx.roomMember.update({id}, {status: 'active', nickname, last_seen})
Reactivated(m) == [m EXCEPT !.status = "active"]

\* tx.roomMember.create({... role: 'member', status: 'active',
\*                       join_order: room.members.length + 1})
MemberRow(id, r, u, n) ==
  [id |-> id, room |-> r, user |-> u, role |-> "member",
   status |-> "active", join_order |-> n + 1]

\* the existingMember branch: a row was found, so it is reactivated
RejoinBranch(row) == row # 0

\* the write of the transaction and its commit
J_tx3(p) ==
  /\ pc[p] = "J_tx3"
  /\ LET r == lv[p].room
         u == lv[p].user IN
     IF RejoinBranch(lv[p].row)
     THEN /\ ~LockedByOther(lv[p].row, p)
          /\ members' = (members \ {RowById(lv[p].row)})
                          \cup {Reactivated(RowById(lv[p].row))}
          /\ Goto(p, "J_c1", [lv[p] EXCEPT !.flag = TRUE])
     ELSE IF RowsOf(r, u) # {}
          \* @@unique([room_id, user_id]) rejects the insert
          THEN /\ Goto(p, "J_rel", [lv[p] EXCEPT !.err = "Conflict"])
               /\ UNCHANGED members
          ELSE /\ members' = members
                     \cup {MemberRow(FreshRowId, r, u, lv[p].n)}
               /\ Goto(p, "J_c1", [lv[p] EXCEPT !.flag = FALSE])
  /\ UNCHANGED <<rooms, kv_lock, cacheVars, calls, scriptVars, sockVars>>

\* updateRoomMemberCount(roomId, delta), first await: redisClient.get
CountRead(p, hit, miss) ==
  IF kv_room[lv[p].room].present
  THEN Goto(p, hit, [lv[p] EXCEPT !.snap = kv_room[lv[p].room]])
  ELSE Goto(p, miss, lv[p])

\* updateRoomMemberCount(roomId, delta), second await: redisClient.setEx
CountWritten(p, delta) ==
  [kv_room EXCEPT ![lv[p].room] =
     [lv[p].snap EXCEPT !.memberCount = NewMemberCount(@, delta)]]

J_c1(p) ==
  /\ pc[p] = "J_c1"
  /\ CountRead(p, "J_c2", "J_rel")
  /\ UNCHANGED <<dbVars, kv_lock, cacheVars, calls, scriptVars, sockVars>>

J_c2(p) ==
  /\ pc[p] = "J_c2"
  /\ kv_room' = CountWritten(p, 1)
  /\ Goto(p, "J_rel", [lv[p] EXCEPT !.snap = NoSnap])
  /\ UNCHANGED <<dbVars, kv_lock, kv_code, kv_mset, kv_loc, kv_chat,
                 calls, scriptVars, sockVars>>

\* mutant: an unconditional DEL of the key
LockReleased_unconditional(k, t) == [kv_lock EXCEPT ![k] = Absent]

\* mutant: the release is left out
LockReleased_skipped(k, t) == kv_lock

\* if redis.call("get", KEYS[1]) == ARGV[1] then del KEYS[1] else 0
LockReleased(k, t) ==
  IF kv_lock[k] = t THEN [kv_lock EXCEPT ![k] = Absent] ELSE kv_lock

\* the join_order of the row the call activated (0: none)
JoinedOrder(p) ==
  LET rows == RowsOf(lv[p].room, lv[p].user) IN
  IF lv[p].err = "none" /\ rows # {}
  THEN (CHOOSE m \in rows : TRUE).join_order ELSE 0

\* finally { eval(script, lockKey, lockValue) }, then return or rethrow
J_rel(p) ==
  /\ pc[p] = "J_rel"
  /\ kv_lock' = LockReleased(lv[p].room, lv[p].tok)
  /\ Return(p, [Outcome(p, IF lv[p].err = "none" THEN "ok" ELSE lv[p].err)
                  EXCEPT !.order = JoinedOrder(p)])
  /\ UNCHANGED <<dbVars, cacheVars, calls, scriptVars, sockVars>>

\* the key's PX 10000 runs out.  The transaction of joinRoom takes no
\* options, so it ends within Prisma's 5 s default: the TTL can only run
\* out once the holder is past its transaction.
InJoinTx(p) == pc[p] \in {"J_tx1", "J_tx2", "J_tx3"}

\* redisClient.set(lockKey, lockValue, {PX: 10000, NX: true})
LockTtlMs == 10000
\* prisma.$transaction(fn) without options: maxWait and timeout of the
\* interactive transaction are Prisma's defaults
TxMaxWaitMs == 2000
TxTimeoutMs == 5000

\* mutant: the transaction may run for as long as the lock lives
TxOutlivesLock_equal == TRUE

\* the transaction, begun after the SET, can still be open when the key's
\* TTL runs out
TxOutlivesLock == TxMaxWaitMs + TxTimeoutMs >= LockTtlMs

LockExpire(k) ==
  /\ kv_lock[k] # Absent
  /\ \/ TxOutlivesLock
     \/ ~\E p \in Procs : lv[p].tok = kv_lock[k] /\ InJoinTx(p)
  /\ kv_lock' = [kv_lock EXCEPT ![k] = Absent]
  /\ UNCHANGED <<dbVars, cacheVars, pc, lv, ret, calls, scriptVars, sockVars>>

\* ------------------------------------------------- location samples
\* the values a client reports in location-update (latitude, longitude,
\* ... taken together)
NumSamples == 2
Samples == 1..NumSamples

\* mutant: the key is not deleted
LocDeleted_kept(r, u) == kv_loc

\* redisClient.del(`location:${roomId}:${userId}`)
LocDeleted(r, u) == {k \in kv_loc : ~(k[1] = r /\ k[2] = u)}

\* mutant: the sample is stored only when the key does not exist
LocStored_ifAbsent(r, u, s) ==
  IF \E k \in kv_loc : k[1] = r /\ k[2] = u THEN kv_loc
  ELSE kv_loc \cup {<<r, u, s>>}

\* redisClient.setEx(`location:${roomId}:${userId}`, 300, locationData)
LocStored(r, u, s) == LocDeleted(r, u) \cup {<<r, u, s>>}

\* ------------------------------------------------- pub/sub and emits
\* a published message or an emitted event
Event(type, r, u, id) == [type |-> type, room |-> r, user |-> u, id |-> id]

\* io.to(`room:${roomId}`).emit(...): every socket of the room
ToRoom(r, ev) == {<<u, ev>> : u \in {v \in Users : <<r, v>> \in subs}}
\* socket.to(`room:${roomId}`).emit(...): every socket but the sender's
ToOthers(r, from, ev) == {d \in ToRoom(r, ev) : d[1] # from}
\* socket.emit(...): the sender's socket, when it is still connected
ToSelf(u, ev) == IF u \in conn THEN {<<u, ev>>} ELSE {}

\* ---------------------------------------------------------- leaveRoom
BeginLeave(p, r, u) ==
  /\ pc[p] = "idle"
  /\ Goto(p, "L_tx1", [LvInit EXCEPT !.op = "leave", !.room = r, !.user = u])
  /\ calls' = calls + 1
  /\ UNCHANGED <<dbVars, kv_lock, cacheVars>>

\* mutant: no idempotency check
AlreadyLeft_never(m) == FALSE

\* if (roomMember.status === 'left') return roomMember
AlreadyLeft(m) == m.status = "left"

\* tx.roomMember.findUnique({room_id_user_id}); the idempotency check
L_tx1(p) ==
  /\ pc[p] = "L_tx1"
  /\ LET rows == RowsOf(lv[p].room, lv[p].user) IN
     IF rows = {}
     THEN Return(p, Outcome(p, "NotMember"))
     ELSE \E m \in rows :
            IF AlreadyLeft(m)
            \* the transaction returns the row; result.status === 'left'
            THEN Goto(p, "L_c1", [lv[p] EXCEPT !.flag = TRUE])
            ELSE IF m.status # "active"
            THEN Return(p, Outcome(p, "NotActive"))
            ELSE Goto(p, "L_tx2", [lv[p] EXCEPT !.row = m.id,
                                                !.role = m.role])
  /\ UNCHANGED <<dbVars, kv_lock, cacheVars, calls, scriptVars, sockVars>>

MarkedLeft(m) == [m EXCEPT !.status = "left"]

\* tx.roomMember.update({id, status: 'active'}, {status: 'left'}): waits
\* for an open transaction that wrote the row, throws when no row
\* matches; a member who is not the owner commits here
L_tx2(p) ==
  /\ pc[p] = "L_tx2"
  /\ ~LockedByOther(lv[p].row, p)
  /\ LET m == RowById(lv[p].row) IN
     IF m.status # "active"
     THEN /\ Return(p, Outcome(p, "TxError"))
          /\ UNCHANGED members
     ELSE IF lv[p].role = "owner"
     THEN /\ Goto(p, "L_tx3", [lv[p] EXCEPT !.pend = m.id])
          /\ UNCHANGED members
     ELSE /\ members' = (members \ {m}) \cup {MarkedLeft(m)}
          /\ Goto(p, "L_c1", lv[p])
  /\ UNCHANGED <<rooms, kv_lock, cacheVars, calls, scriptVars, sockVars>>

\* mutant: the successor with the largest join_order
NextOwners_largest(r, u) ==
  LET cand == {m \in ActiveMembers(r) : m.user # u} IN
  {m \in cand : \A o \in cand : m.join_order >= o.join_order}

\* findFirst({room_id, user_id: {not: userId}, status: 'active'},
\*           orderBy: {join_order: 'asc'})
NextOwners(r, u) ==
  LET cand == {m \in ActiveMembers(r) : m.user # u} IN
  {m \in cand : \A o \in cand : m.join_order <= o.join_order}

L_tx3(p) ==
  /\ pc[p] = "L_tx3"
  /\ LET cand == NextOwners(lv[p].room, lv[p].user) IN
     IF cand = {}
     THEN Goto(p, "L_tx4", [lv[p] EXCEPT !.next = 0])
     ELSE \E m \in cand : Goto(p, "L_tx4", [lv[p] EXCEPT !.next = m.id])
  /\ UNCHANGED <<dbVars, kv_lock, cacheVars, calls, scriptVars, sockVars>>

\* tx.roomMember.update({id: nextMember.id}, {role: 'owner'})
Promoted(m) == [m EXCEPT !.role = "owner"]

\* tx.room.update({id: roomId}, {status: 'closed', completed_at})
ClosedRoom(row) == [row EXCEPT !.status = "closed", !.completed = TRUE]

\* the transfer or the closure, then the commit of both writes
L_tx4(p) ==
  /\ pc[p] = "L_tx4"
  /\ LET me == RowById(lv[p].pend) IN
     IF lv[p].next # 0
     THEN /\ ~LockedByOther(lv[p].next, p)
          /\ LET nx == RowById(lv[p].next) IN
             members' = (members \ {me, nx})
                          \cup {MarkedLeft(me), Promoted(nx)}
          /\ UNCHANGED rooms
     ELSE /\ members' = (members \ {me}) \cup {MarkedLeft(me)}
          /\ rooms' = [rooms EXCEPT ![lv[p].room] = ClosedRoom(@)]
  /\ Goto(p, "L_c1", [lv[p] EXCEPT !.pend = 0])
  /\ UNCHANGED <<kv_lock, cacheVars, calls, scriptVars, sockVars>>

\* a statement waiting for a row lock is ended by the transaction timeout
\* (or by the deadlock detector); the transaction rolls back and throws
Waiting(p) ==
  \/ pc[p] = "L_tx2" /\ LockedByOther(lv[p].row, p)
  \/ pc[p] = "L_tx4" /\ lv[p].next # 0 /\ LockedByOther(lv[p].next, p)
  \/ pc[p] = "J_tx3" /\ lv[p].row # 0 /\ LockedByOther(lv[p].row, p)

TxAbort(p) ==
  /\ Waiting(p)
  /\ IF lv[p].op = "join"
     THEN Goto(p, "J_rel", [lv[p] EXCEPT !.err = "TxError"])
     ELSE Return(p, Outcome(p, "TxError"))
  /\ UNCHANGED <<dbVars, kv_lock, cacheVars, calls, scriptVars, sockVars>>

\* if (result.status === 'left') updateRoomMemberCount(roomId, -1) ...
L_c1(p) ==
  /\ pc[p] = "L_c1"
  /\ CountRead(p, "L_c2", "L_del")
  /\ UNCHANGED <<dbVars, kv_lock, cacheVars, calls, scriptVars, sockVars>>

L_c2(p) ==
  /\ pc[p] = "L_c2"
  /\ kv_room' = CountWritten(p, -1)
  /\ Goto(p, "L_del", [lv[p] EXCEPT !.snap = NoSnap])
  /\ UNCHANGED <<dbVars, kv_lock, kv_code, kv_mset, kv_loc, kv_chat,
                 calls, scriptVars, sockVars>>

\* redisClient.del(`location:${roomId}:${userId}`)
L_del(p) ==
  /\ pc[p] = "L_del"
  /\ kv_loc' = LocDeleted(lv[p].room, lv[p].user)
  /\ Goto(p, "L_srem", lv[p])
  /\ UNCHANGED <<dbVars, kv_lock, kv_code, kv_room, kv_mset, kv_chat,
                 calls, scriptVars, sockVars>>

\* redisClient.sRem(`room:${roomId}:members`, userId); return result
L_srem(p) ==
  /\ pc[p] = "L_srem"
  /\ kv_mset' = [kv_mset EXCEPT ![lv[p].room] = @ \ {lv[p].user}]
  /\ Return(p, Outcome(p, "ok"))
  /\ UNCHANGED <<dbVars, kv_lock, kv_code, kv_room, kv_loc, kv_chat,
                 calls, scriptVars, sockVars>>

\* ----------------------------------------------------- getRoomDetails
BeginDetails(p, r, u) ==
  /\ pc[p] = "idle"
  /\ Goto(p, "R_get", [LvInit EXCEPT !.op = "details", !.room = r,
                                     !.user = u])
  /\ calls' = calls + 1
  /\ UNCHANGED <<dbVars, kv_lock, cacheVars>>

\* const cachedRoom = await redisClient.get(`room:${roomId}`)
R_get(p) ==
  /\ pc[p] = "R_get"
  /\ IF kv_room[lv[p].room].present
     THEN Goto(p, "R_ismem", [lv[p] EXCEPT !.snap = kv_room[lv[p].room]])
     ELSE Goto(p, "R_db", lv[p])
  /\ UNCHANGED <<dbVars, kv_lock, cacheVars, calls, scriptVars, sockVars>>

\* mutant: the cache path returns the snapshot to any user
CachedMember_anyone(r, u) == TRUE

\* redisClient.sIsMember(`room:${roomId}:members`, userId)
CachedMember(r, u) == u \in kv_mset[r]

\* cache hit: Access denied, or return roomData
R_ismem(p) ==
  /\ pc[p] = "R_ismem"
  /\ IF CachedMember(lv[p].room, lv[p].user)
     THEN Return(p, [Outcome(p, "ok") EXCEPT !.snap = lv[p].snap,
                                             !.flag = TRUE])
     ELSE Return(p, [Outcome(p, "AccessDenied") EXCEPT !.flag = TRUE])
  /\ UNCHANGED <<dbVars, kv_lock, cacheVars, calls, scriptVars, sockVars>>

\* the durable room with its active members, as the cached object
DurableView(r) ==
  LET ms == {[user |-> m.user, role |-> m.role] : m \in ActiveMembers(r)} IN
  [present |-> TRUE,
   memberCount |-> CacheMemberCount(TRUE, Cardinality(ActiveMembers(r)),
                                    FALSE, 0),
   hasMembers |-> TRUE, list |-> ms, status |-> rooms[r].status]

\* cache miss: prisma.room.findUnique with the active members
R_db(p) ==
  /\ pc[p] = "R_db"
  /\ LET r == lv[p].room IN
     IF ~rooms[r].exists
     THEN Return(p, Outcome(p, "NotFound"))
     ELSE IF ~\E m \in ActiveMembers(r) : m.user = lv[p].user
     THEN Return(p, Outcome(p, "AccessDenied"))
     ELSE Goto(p, "R_set", [lv[p] EXCEPT !.snap = DurableView(r)])
  /\ UNCHANGED <<dbVars, kv_lock, cacheVars, calls, scriptVars, sockVars>>

\* cacheRoomData: redisClient.setEx(`room:${roomId}`, 3600, ...)
R_set(p) ==
  /\ pc[p] = "R_set"
  /\ kv_room' = [kv_room EXCEPT ![lv[p].room] = lv[p].snap]
  /\ IF lv[p].snap.list # {}
     THEN Goto(p, "R_sadd", lv[p])
     ELSE Return(p, [Outcome(p, "ok") EXCEPT !.snap = lv[p].snap])
  /\ UNCHANGED <<dbVars, kv_lock, kv_code, kv_mset, kv_loc, kv_chat,
                 calls, scriptVars, sockVars>>

\* cacheRoomData: redisClient.sAdd(`room:${roomId}:members`, memberIds)
R_sadd(p) ==
  /\ pc[p] = "R_sadd"
  /\ kv_mset' = [kv_mset EXCEPT ![lv[p].room] =
                   @ \cup {m.user : m \in lv[p].snap.list}]
  /\ Return(p, [Outcome(p, "ok") EXCEPT !.snap = lv[p].snap])
  /\ UNCHANGED <<dbVars, kv_lock, kv_code, kv_room, kv_loc, kv_chat,
                 calls, scriptVars, sockVars>>

\* ------------------------------------------------ cleanupExpiredRooms
BeginCleanup(p) ==
  /\ pc[p] = "idle"
  /\ Goto(p, "K_find", [LvInit EXCEPT !.op = "cleanup"])
  /\ calls' = calls + 1
  /\ UNCHANGED <<dbVars, kv_lock, cacheVars>>

\* findMany({expires_at: {lt: now}, status: 'active'})
ExpiredActive == {r \in ExistingRooms :
                    rooms[r].past /\ rooms[r].status = "active"}

K_find(p) ==
  /\ pc[p] = "K_find"
  /\ IF ExpiredActive = {}
     THEN Return(p, Outcome(p, "ok"))
     ELSE Goto(p, "K_upd", [lv[p] EXCEPT !.todo = ExpiredActive])
  /\ UNCHANGED <<dbVars, kv_lock, cacheVars, calls, scriptVars, sockVars>>

\* mutant: the batch update leaves the status as it is
ExpiredRoom_stillActive(row) == [row EXCEPT !.completed = TRUE]

\* updateMany({id: {in: ids}}, {status: 'expired', completed_at})
ExpiredRoom(row) == [row EXCEPT !.status = "expired", !.completed = TRUE]

K_upd(p) ==
  /\ pc[p] = "K_upd"
  /\ rooms' = [r \in RoomIds |->
                 IF r \in lv[p].todo THEN ExpiredRoom(rooms[r]) ELSE rooms[r]]
  /\ Goto(p, "K_purge", lv[p])
  /\ UNCHANGED <<members, kv_lock, cacheVars, calls, scriptVars, sockVars>>

\* mutant: the chat log is kept
PurgedChat_kept(r) == kv_chat

\* redisClient.del(`chat:room:${room.id}:messages`)
PurgedChat(r) == [kv_chat EXCEPT ![r] = <<>>]

\* for (const room of expiredRooms): del room:<id>, room:<id>:members,
\* room_code:<code>, location:<id>:*, chat:room:<id>:messages (one room
\* of the batch per step)
K_purge(p) ==
  /\ pc[p] = "K_purge"
  /\ LET r == MinOf(lv[p].todo)
         rest == lv[p].todo \ {r} IN
     /\ kv_room' = [kv_room EXCEPT ![r] = NoSnap]
     /\ kv_mset' = [kv_mset EXCEPT ![r] = {}]
     /\ kv_code' = [kv_code EXCEPT ![rooms[r].code] = Absent]
     /\ kv_loc' = {k \in kv_loc : k[1] # r}
     /\ kv_chat' = PurgedChat(r)
     /\ IF rest = {}
        THEN Return(p, Outcome(p, "ok"))
        ELSE Goto(p, "K_purge", [lv[p] EXCEPT !.todo = rest])
  /\ UNCHANGED <<dbVars, kv_lock, calls, scriptVars, sockVars>>

\* ------------------------------------------------ socket: send-message
\* a socket event of user u arrives; worker p runs the async handler
BeginSend(p, r, u) ==
  /\ pc[p] = "idle"
  /\ Goto(p, "M_find", [LvInit EXCEPT !.op = "send", !.room = r, !.user = u])
  /\ calls' = calls + 1
  /\ UNCHANGED <<dbVars, kv_lock, cacheVars>>

\* prisma.roomMember.findFirst({room_id, user_id, status: 'active'})
IsActiveMember(r, u) == \E m \in ActiveMembers(r) : m.user = u

\* send-message: the membership check; emit('error') and return
M_find(p) ==
  /\ pc[p] = "M_find"
  /\ IF IsActiveMember(lv[p].room, lv[p].user)
     THEN Goto(p, "M_push", lv[p])
     ELSE Return(p, Outcome(p, "NotAuthorized"))
  /\ UNCHANGED <<dbVars, kv_lock, cacheVars, calls, scriptVars, sockVars>>

\* the chatMessage: id uuidv4() is modelled by the ordinal of the message
\* in the list, which no stored message of the room has
ChatMessage(r, u) == [id |-> Len(kv_chat[r]) + 1, user |-> u]

\* mutant: the message is added at the tail
Pushed_atTail(list, msg) == Append(list, msg)

\* redisClient.lPush(messageKey, message): the new element is the head
Pushed(list, msg) == <<msg>> \o list

\* lPush of the new message, then expire(messageKey, 24 h)
M_push(p) ==
  /\ pc[p] = "M_push"
  /\ kv_chat' = [kv_chat EXCEPT ![lv[p].room] =
                   Pushed(@, ChatMessage(lv[p].room, lv[p].user))]
  /\ Goto(p, "M_pub", [lv[p] EXCEPT
                         !.n = ChatMessage(lv[p].room, lv[p].user).id])
  /\ UNCHANGED <<dbVars, kv_lock, kv_code, kv_room, kv_mset, kv_loc, calls,
                 scriptVars, sockVars>>

\* mutant: the message is emitted to the room and not published
Published_emitted(ch, ev) == topic

\* redisClient.publish(channel, JSON.stringify(...))
Published(ch, ev) == Append(topic, [chan |-> ch, ev |-> ev])

\* redisClient.publish(`chat:room:${roomId}:updates`, message)
M_pub(p) ==
  /\ pc[p] = "M_pub"
  /\ topic' = Published("chat",
                         Event("new-message", lv[p].room, lv[p].user, lv[p].n))
  /\ Return(p, Outcome(p, "ok"))
  /\ UNCHANGED <<dbVars, kv_lock, cacheVars, calls, scriptVars, conn, subs,
                 inbox>>

\* chatSubscriber.pSubscribe('chat:room:*:updates', ...): the listener is
\* called with the oldest chat message not yet handled and emits it to
\* every socket of the room
SubChat ==
  \E i \in 1..Len(topic) :
    /\ topic[i].chan = "chat"
    /\ \A j \in 1..(i - 1) : topic[j].chan # "chat"
    /\ inbox' = inbox \cup ToRoom(topic[i].ev.room, topic[i].ev)
    /\ topic' = [j \in 1..(Len(topic) - 1) |->
                   topic[IF j < i THEN j ELSE j + 1]]
    /\ UNCHANGED <<dbVars, kv_lock, cacheVars, pc, lv, ret, calls,
                   scriptVars, conn, subs>>

\* subscriber.pSubscribe('room:*:locations', (message, channel) => {}):
\* the listener of the location channels does nothing
SubLoc ==
  \E i \in 1..Len(topic) :
    /\ topic[i].chan = "loc"
    /\ \A j \in 1..(i - 1) : topic[j].chan # "loc"
    /\ topic' = [j \in 1..(Len(topic) - 1) |->
                   topic[IF j < i THEN j ELSE j + 1]]
    /\ UNCHANGED <<dbVars, kv_lock, cacheVars, pc, lv, ret, calls,
                   scriptVars, conn, subs, inbox>>

\* ---------------------------------------- socket: request-chat-history
BeginHistory(p, r, u) ==
  /\ pc[p] = "idle"
  /\ Goto(p, "H_find", [LvInit EXCEPT !.op = "history", !.room = r,
                                      !.user = u])
  /\ calls' = calls + 1
  /\ UNCHANGED <<dbVars, kv_lock, cacheVars>>

H_find(p) ==
  /\ pc[p] = "H_find"
  /\ IF IsActiveMember(lv[p].room, lv[p].user)
     THEN Goto(p, "H_range", lv[p])
     ELSE Return(p, Outcome(p, "NotAuthorized"))
  /\ UNCHANGED <<dbVars, kv_lock, cacheVars, calls, scriptVars, sockVars>>

\* Array.prototype.reverse()
Reversed(list) == [i \in 1..Len(list) |-> list[Len(list) + 1 - i]]

\* mutant: the list as stored
ChatHistory_asStored(list) == list

\* rawMessages.map(JSON.parse).reverse() of lRange(messageKey, 0, -1)
ChatHistory(list) == Reversed(list)

\* lRange, then emit('chat-history', {messages})
H_range(p) ==
  /\ pc[p] = "H_range"
  /\ Return(p, [Outcome(p, "ok") EXCEPT
                  !.hist = ChatHistory(kv_chat[lv[p].room])])
  /\ UNCHANGED <<dbVars, kv_lock, cacheVars, calls, scriptVars, sockVars>>

\* ---------------------------------------------- socket: location-update
BeginLocate(p, r, u) ==
  /\ pc[p] = "idle"
  /\ \E s \in Samples :
       Goto(p, "U_find", [LvInit EXCEPT !.op = "locate", !.room = r,
                                        !.user = u, !.n = s])
  /\ calls' = calls + 1
  /\ UNCHANGED <<dbVars, kv_lock, cacheVars>>

U_find(p) ==
  /\ pc[p] = "U_find"
  /\ IF IsActiveMember(lv[p].room, lv[p].user)
     THEN Goto(p, "U_set", lv[p])
     ELSE Return(p, Outcome(p, "NotAuthorized"))
  /\ UNCHANGED <<dbVars, kv_lock, cacheVars, calls, scriptVars, sockVars>>

\* redisClient.setEx(`location:${roomId}:${userId}`, 300, locationData)
U_set(p) ==
  /\ pc[p] = "U_set"
  /\ kv_loc' = LocStored(lv[p].room, lv[p].user, lv[p].n)
  /\ Goto(p, "U_pub", lv[p])
  /\ UNCHANGED <<dbVars, kv_lock, kv_code, kv_room, kv_mset, kv_chat,
                 calls, scriptVars, sockVars>>

\* roomMember.update({last_seen}), publish on `room:${roomId}:locations`,
\* socket.to(room).emit('location-updated'), emit('location-confirmed')
U_pub(p) ==
  /\ pc[p] = "U_pub"
  /\ LET r == lv[p].room
         u == lv[p].user IN
     /\ topic' = Published("loc", Event("location-updated", r, u, lv[p].n))
     /\ inbox' = inbox
          \cup ToOthers(r, u, Event("location-updated", r, u, lv[p].n))
          \cup ToSelf(u, Event("location-confirmed", r, u, lv[p].n))
  /\ Return(p, Outcome(p, "ok"))
  /\ UNCHANGED <<dbVars, kv_lock, cacheVars, calls, scriptVars, conn, subs>>

\* ------------------------------------------------- socket: connection
\* a socket of user u connects (after the authentication middleware)
BeginConnect(p, u) ==
  /\ pc[p] = "idle"
  /\ u \notin conn
  /\ conn' = conn \cup {u}
  /\ Goto(p, "N_find", [LvInit EXCEPT !.op = "connect", !.user = u])
  /\ calls' = calls + 1
  /\ UNCHANGED <<dbVars, kv_lock, cacheVars, subs, topic, inbox>>

\* the rooms findMany({user_id, status: 'active'}, include room) returns
\* and whose room.status is active
OwnActiveRooms(u) ==
  {r \in ExistingRooms : IsActiveMember(r, u) /\ rooms[r].status = "active"}

\* findMany of the user's active memberships, socket.join for each active
\* room, setEx of socket:<userId>
N_find(p) ==
  /\ pc[p] = "N_find"
  /\ subs' = IF lv[p].user \in conn
             THEN subs \cup {<<r, lv[p].user>> :
                               r \in OwnActiveRooms(lv[p].user)}
             ELSE subs
  /\ Return(p, Outcome(p, "ok"))
  /\ UNCHANGED <<dbVars, kv_lock, cacheVars, calls, scriptVars, conn, topic,
                 inbox>>

\* -------------------------------------------------- socket: join-room
BeginJoinRoom(p, r, u) ==
  /\ pc[p] = "idle"
  /\ Goto(p, "Q_find", [LvInit EXCEPT !.op = "join-room", !.room = r,
                                      !.user = u])
  /\ calls' = calls + 1
  /\ UNCHANGED <<dbVars, kv_lock, cacheVars>>

\* findFirst({room_id, user_id, status: 'active'}, include room);
\* !roomMember || roomMember.room.status !== 'active'; socket.join
Q_find(p) ==
  /\ pc[p] = "Q_find"
  /\ LET r == lv[p].room
         u == lv[p].user IN
     IF r \in OwnActiveRooms(u)
     THEN /\ subs' = IF u \in conn THEN subs \cup {<<r, u>>} ELSE subs
          /\ Goto(p, "Q_sadd", lv[p])
     ELSE /\ Return(p, Outcome(p, "NotAuthorized"))
          /\ UNCHANGED subs
  /\ UNCHANGED <<dbVars, kv_lock, cacheVars, calls, scriptVars, conn, topic,
                 inbox>>

\* roomMember.update({last_seen}), sAdd(`room:${roomId}:members`, userId),
\* expire, emit('joined-room'), socket.to(room).emit('user-joined')
Q_sadd(p) ==
  /\ pc[p] = "Q_sadd"
  /\ LET r == lv[p].room
         u == lv[p].user IN
     /\ kv_mset' = [kv_mset EXCEPT ![r] = @ \cup {u}]
     /\ inbox' = inbox \cup ToSelf(u, Event("joined-room", r, u, 0))
                       \cup ToOthers(r, u, Event("user-joined", r, u, 0))
  /\ Goto(p, "Q_locs", lv[p])
  /\ UNCHANGED <<dbVars, kv_lock, kv_code, kv_room, kv_loc, kv_chat, calls,
                 scriptVars, conn, subs, topic>>

\* sMembers, get of each other member's location key,
\* emit('room-locations') when there is one: one event per sample
Q_locs(p) ==
  /\ pc[p] = "Q_locs"
  /\ LET r == lv[p].room
         u == lv[p].user
         locs == {k \in kv_loc : k[1] = r /\ k[2] \in kv_mset[r] \ {u}} IN
     inbox' = inbox \cup UNION {ToSelf(u, Event("room-locations", r, k[2],
                                                k[3])) : k \in locs}
  /\ Return(p, Outcome(p, "ok"))
  /\ UNCHANGED <<dbVars, kv_lock, cacheVars, calls, scriptVars, conn, subs,
                 topic>>

\* ------------------------------------------------- socket: leave-room
BeginLeaveRoom(p, r, u) ==
  /\ pc[p] = "idle"
  /\ Goto(p, "V_leave", [LvInit EXCEPT !.op = "leave-room", !.room = r,
                                       !.user = u])
  /\ calls' = calls + 1
  /\ UNCHANGED <<dbVars, kv_lock, cacheVars>>

\* authenticatedSocket.leave(`room:${roomId}`)
V_leave(p) ==
  /\ pc[p] = "V_leave"
  /\ subs' = subs \ {<<lv[p].room, lv[p].user>>}
  /\ Goto(p, "V_srem", lv[p])
  /\ UNCHANGED <<dbVars, kv_lock, cacheVars, calls, scriptVars, conn, topic,
                 inbox>>

\* mutant: the entry of the member set is kept
MsetRemoved_kept(r, u) == kv_mset

\* redisClient.sRem(`room:${roomId}:members`, userId)
MsetRemoved(r, u) == [kv_mset EXCEPT ![r] = @ \ {u}]

V_srem(p) ==
  /\ pc[p] = "V_srem"
  /\ kv_mset' = MsetRemoved(lv[p].room, lv[p].user)
  /\ Goto(p, "V_del", lv[p])
  /\ UNCHANGED <<dbVars, kv_lock, kv_code, kv_room, kv_loc, kv_chat, calls,
                 scriptVars, sockVars>>

V_del(p) ==
  /\ pc[p] = "V_del"
  /\ kv_loc' = LocDeleted(lv[p].room, lv[p].user)
  /\ Goto(p, "V_pub", lv[p])
  /\ UNCHANGED <<dbVars, kv_lock, kv_code, kv_room, kv_mset, kv_chat, calls,
                 scriptVars, sockVars>>

\* publish {type: 'user-left'} on `room:${roomId}:locations`, then
\* socket.to(room).emit('user-left')
V_pub(p) ==
  /\ pc[p] = "V_pub"
  /\ LET ev == Event("user-left", lv[p].room, lv[p].user, 0) IN
     /\ topic' = Published("loc", ev)
     /\ inbox' = inbox \cup ToOthers(lv[p].room, lv[p].user, ev)
  /\ Return(p, Outcome(p, "ok"))
  /\ UNCHANGED <<dbVars, kv_lock, cacheVars, calls, scriptVars, conn, subs>>

\* -------------------------------------------------- socket: disconnect
\* the socket of user u closes: socket.io takes it out of its rooms and
\* calls the handler
BeginDisconnect(p, u) ==
  /\ pc[p] = "idle"
  /\ u \in conn
  /\ conn' = conn \ {u}
  /\ subs' = {k \in subs : k[2] # u}
  /\ Goto(p, "D_find", [LvInit EXCEPT !.op = "disconnect", !.user = u])
  /\ calls' = calls + 1
  /\ UNCHANGED <<dbVars, kv_lock, cacheVars, topic, inbox>>

\* del(`socket:${userId}`), findMany({user_id, status: 'active'})
D_find(p) ==
  /\ pc[p] = "D_find"
  /\ LET rs == {r \in ExistingRooms : IsActiveMember(r, lv[p].user)} IN
     IF rs = {}
     THEN Return(p, Outcome(p, "ok"))
     ELSE Goto(p, "D_srem", [lv[p] EXCEPT !.todo = rs, !.room = MinOf(rs)])
  /\ UNCHANGED <<dbVars, kv_lock, cacheVars, calls, scriptVars, sockVars>>

D_srem(p) ==
  /\ pc[p] = "D_srem"
  /\ kv_mset' = MsetRemoved(lv[p].room, lv[p].user)
  /\ Goto(p, "D_del", lv[p])
  /\ UNCHANGED <<dbVars, kv_lock, kv_code, kv_room, kv_loc, kv_chat, calls,
                 scriptVars, sockVars>>

D_del(p) ==
  /\ pc[p] = "D_del"
  /\ kv_loc' = LocDeleted(lv[p].room, lv[p].user)
  /\ Goto(p, "D_pub", lv[p])
  /\ UNCHANGED <<dbVars, kv_lock, kv_code, kv_room, kv_mset, kv_chat, calls,
                 scriptVars, sockVars>>

\* publish {type: 'user-offline'}, socket.to(room).emit('user-offline');
\* then the next room of the loop
D_pub(p) ==
  /\ pc[p] = "D_pub"
  /\ LET ev == Event("user-offline", lv[p].room, lv[p].user, 0)
         rest == lv[p].todo \ {lv[p].room} IN
     /\ topic' = Published("loc", ev)
     /\ inbox' = inbox \cup ToOthers(lv[p].room, lv[p].user, ev)
     /\ IF rest = {}
        THEN Return(p, Outcome(p, "ok"))
        ELSE Goto(p, "D_srem", [lv[p] EXCEPT !.todo = rest,
                                             !.room = MinOf(rest)])
  /\ UNCHANGED <<dbVars, kv_lock, cacheVars, calls, scriptVars, conn, subs>>

\* ---------------------------------------------------------- the clock
\* now passes the room's expires_at
TimePasses(r) ==
  /\ rooms[r].exists
  /\ ~rooms[r].past
  /\ rooms' = [rooms EXCEPT ![r].past = TRUE]
  /\ UNCHANGED <<members, kv_lock, cacheVars, pc, lv, ret, calls,
                 scriptVars, sockVars>>

\* ------------------------------------------------------ specifications
StartCreate(p, u, cap) ==
  BeginCreate(p, u, cap) /\ UNCHANGED <<scriptVars, sockVars>>
StartJoin(p, c, u) ==
  BeginJoin(p, c, u) /\ UNCHANGED <<scriptVars, sockVars>>
StartLeave(p, r, u) ==
  BeginLeave(p, r, u) /\ UNCHANGED <<scriptVars, sockVars>>
StartDetails(p, r, u) ==
  BeginDetails(p, r, u) /\ UNCHANGED <<scriptVars, sockVars>>
StartCleanup(p) ==
  BeginCleanup(p) /\ UNCHANGED <<scriptVars, sockVars>>

\* a request arrives at worker p
Start(p, max) ==
  /\ calls < max
  /\ \/ \E u \in Users, cap \in Caps : StartCreate(p, u, cap)
     \/ \E c \in Codes, u \in Users : StartJoin(p, c, u)
     \/ \E r \in RoomIds, u \in Users : StartLeave(p, r, u)
     \/ StartCleanup(p)

CreateStep(p) ==
  G_db(p) \/ G_get(p) \/ G_set(p) \/ C_tx(p) \/ C_cache(p) \/ C_map(p)
    \/ C_fail(p)

JoinStep(p) ==
  J_get(p) \/ J_db(p) \/ J_lock(p) \/ J_tx1(p) \/ J_tx2(p) \/ J_tx3(p)
    \/ J_c1(p) \/ J_c2(p) \/ J_rel(p)

LeaveStep(p) ==
  L_tx1(p) \/ L_tx2(p) \/ L_tx3(p) \/ L_tx4(p) \/ L_c1(p) \/ L_c2(p)
    \/ L_del(p) \/ L_srem(p)

SendStep(p) == M_find(p) \/ M_push(p) \/ M_pub(p)

HistoryStep(p) == H_find(p) \/ H_range(p)

LocateStep(p) == U_find(p) \/ U_set(p) \/ U_pub(p)

JoinRoomStep(p) == Q_find(p) \/ Q_sadd(p) \/ Q_locs(p)

LeaveRoomStep(p) == V_leave(p) \/ V_srem(p) \/ V_del(p) \/ V_pub(p)

DisconnectStep(p) == D_find(p) \/ D_srem(p) \/ D_del(p) \/ D_pub(p)

DetailsStep(p) == R_get(p) \/ R_ismem(p) \/ R_db(p) \/ R_set(p) \/ R_sadd(p)

CleanupStep(p) == K_find(p) \/ K_upd(p) \/ K_purge(p)

Next ==
  \/ \E p \in Procs :
       \/ Start(p, MaxCalls)
       \/ CreateStep(p) \/ JoinStep(p) \/ LeaveStep(p) \/ CleanupStep(p)
       \/ TxAbort(p)
       \/ Respond(p)
  \/ \E r \in RoomIds : TimePasses(r)
  \/ \E k \in LockKeys : LockExpire(k)

Spec == Init /\ [][Next]_vars

\* ---------------------------------------------- scripted scenarios
\* SpecScript: one worker runs the calls of a scenario one after the
\* other, each started when the previous one has been answered.
Call(op, u, cap) == [op |-> op, user |-> u, cap |-> cap]

\* create, join X, leave X, leave X
LeaveTwiceMember(o, x, cap) ==
  <<Call("create", o, cap), Call("join", x, 0), Call("leave", x, 0),
    Call("leave", x, 0)>>
\* create, leave creator, leave creator (the first leave closes the room)
LeaveTwiceLast(o, cap) ==
  <<Call("create", o, cap), Call("leave", o, 0), Call("leave", o, 0)>>
\* create, join X, leave creator, leave creator (the first leave
\* transfers the ownership)
LeaveTwiceOwner(o, x, cap) ==
  <<Call("create", o, cap), Call("join", x, 0), Call("leave", o, 0),
    Call("leave", o, 0)>>
\* create with maxMembers = 2, join X, join X, leave creator, leave X
JoinLeaveScenario(o, x) ==
  <<Call("create", o, MinCap), Call("join", x, 0), Call("join", x, 0),
    Call("leave", o, 0), Call("leave", x, 0)>>
\* create, then getRoomDetails for the creator
CreateThenDetails(o, cap) ==
  <<Call("create", o, cap), Call("details", o, 0)>>

LeaveTwiceScripts ==
  {LeaveTwiceMember(o, x, cap) : o \in Users, x \in Users, cap \in Caps}
    \cup {LeaveTwiceLast(o, cap) : o \in Users, cap \in Caps}
    \cup {LeaveTwiceOwner(o, x, cap) : o \in Users, x \in Users, cap \in Caps}

Scripts ==
  {sc \in LeaveTwiceScripts : Len(sc) = 3 \/ sc[1].user # sc[2].user}
    \cup {sc \in {JoinLeaveScenario(o, x) : o \in Users, x \in Users} :
            sc[1].user # sc[2].user}
    \cup {CreateThenDetails(o, cap) : o \in Users, cap \in Caps}

\* the room the scenario created, and its code
TheRoom == MinOf(ExistingRooms)
TheCode == rooms[TheRoom].code

ScriptInit ==
  /\ rooms = [r \in RoomIds |-> NoRoom]
  /\ members = {}
  /\ kv_lock = [k \in LockKeys |-> Absent]
  /\ kv_code = [c \in Codes |-> Absent]
  /\ kv_room = [r \in RoomIds |-> NoSnap]
  /\ kv_mset = [r \in RoomIds |-> {}]
  /\ kv_loc = {}
  /\ kv_chat = [r \in RoomIds |-> <<>>]
  /\ pc = [p \in Procs |-> "idle"]
  /\ lv = [p \in Procs |-> LvInit]
  /\ ret = [p \in Procs |-> RetInit]
  /\ calls = 0
  /\ script \in Scripts
  /\ spos = 0
  /\ conn = {}
  /\ subs = {}
  /\ topic = <<>>
  /\ inbox = {}

ScriptStart(p) ==
  /\ spos < Len(script)
  /\ LET s == script[spos + 1] IN
       CASE s.op = "create" -> BeginCreate(p, s.user, s.cap)
         [] s.op = "join" -> BeginJoin(p, TheCode, s.user)
         [] s.op = "leave" -> BeginLeave(p, TheRoom, s.user)
         [] s.op = "details" -> BeginDetails(p, TheRoom, s.user)
  /\ spos' = spos + 1
  /\ UNCHANGED <<script, sockVars>>

\* the steps a sequential scenario on a fresh store can take
ScriptNext ==
  \/ ScriptStart(1)
  \/ G_db(1) \/ G_get(1) \/ G_set(1) \/ C_tx(1) \/ C_cache(1) \/ C_map(1)
  \/ J_get(1) \/ J_lock(1) \/ J_tx1(1) \/ J_tx2(1) \/ J_tx3(1) \/ J_c1(1)
  \/ J_c2(1) \/ J_rel(1)
  \/ LeaveStep(1)
  \/ R_get(1) \/ R_ismem(1)
  \/ Respond(1)

SpecScript == ScriptInit /\ [][ScriptNext]_vars

\* --------------------------------------------------- the join race
\* SpecRace: an active room one slot short of max_members, as createRoom
\* and cap - 2 joins leave it, and two workers that each call joinRoom
\* once, for two users that have no membership row.  The snapshot and the
\* code mapping are there or have run out of their TTL.
RaceRoom == MinOf(RoomIds)
RaceCode == MinOf(Codes)
RaceMembers(cap) ==
  {OwnerRow(1, RaceRoom, 1)}
    \cup {MemberRow(u, RaceRoom, u, u - 1) : u \in 2..(cap - 1)}
RaceJoiner(p, cap) == cap - 1 + p

RaceInit ==
  \E cap \in Caps, cached \in BOOLEAN, mapped \in BOOLEAN :
    /\ rooms = [r \in RoomIds |->
                  IF r = RaceRoom THEN NewRoomRow(RaceCode, cap, 1)
                  ELSE NoRoom]
    /\ members = RaceMembers(cap)
    /\ kv_lock = [k \in LockKeys |-> Absent]
    /\ kv_code = [c \in Codes |->
                    IF c = RaceCode /\ mapped THEN RaceRoom ELSE Absent]
    /\ kv_room = [r \in RoomIds |->
                    IF r = RaceRoom /\ cached
                    THEN [present |-> TRUE, memberCount |-> cap - 1,
                          hasMembers |-> FALSE, list |-> {},
                          status |-> "active"]
                    ELSE NoSnap]
    /\ kv_mset = [r \in RoomIds |-> {}]
    /\ kv_loc = {}
    /\ kv_chat = [r \in RoomIds |-> <<>>]
    /\ pc = [p \in Procs |-> "idle"]
    /\ lv = [p \in Procs |-> LvInit]
    /\ ret = [p \in Procs |-> RetInit]
    /\ calls = 0
    /\ script = <<>>
    /\ spos = 0
    /\ conn = {}
    /\ subs = {}
    /\ topic = <<>>
    /\ inbox = {}

Racers == {1, 2}

RaceStart(p) ==
  /\ ret[p].op = "none"
  /\ StartJoin(p, RaceCode, RaceJoiner(p, rooms[RaceRoom].cap))

RaceNext ==
  \/ \E p \in Racers : RaceStart(p) \/ JoinStep(p)
  \/ \E k \in LockKeys : LockExpire(k)

SpecRace == RaceInit /\ [][RaceNext]_vars

\* =============================================================== claims
ActiveOwners(r) == {m \in ActiveMembers(r) : m.role = "owner"}
InJoin(p) == lv[p].op = "join"
HoldsLock(p) ==
  InJoin(p) /\ pc[p] \in {"J_tx1", "J_tx2", "J_tx3", "J_c1", "J_c2", "J_rel"}

\* C1: in every reachable state each room has at most one member row with
\* status = active and role = owner.
C1_AtMostOneActiveOwner ==
  \A r \in RoomIds : Cardinality(ActiveOwners(r)) <= 1

\* C2: in every reachable state, concurrent joinRoom calls included, the
\* number of active member rows of a room never exceeds its max_members.
C2_NeverOverCapacity ==
  \A r \in ExistingRooms : Cardinality(ActiveMembers(r)) <= rooms[r].cap

\* a join is refused with RoomFull while another worker's join on the same
\* room is in progress and the room holds max_members active members
C2_Witness ==
  \E p \in Procs, q \in Procs :
     /\ p # q
     /\ pc[p] = "done" /\ ret[p].op = "join" /\ ret[p].res = "RoomFull"
     /\ InJoin(q) /\ pc[q] # "done" /\ lv[q].room = ret[p].room
     /\ Cardinality(ActiveMembers(ret[p].room)) = rooms[ret[p].room].cap

\* C4: a room's status changes only from active to expired or from active
\* to closed (after its creation); a closed or expired room keeps its
\* status whatever operation runs.
C4_StatusTerminal ==
  [][\A r \in RoomIds :
       rooms'[r].status # rooms[r].status =>
         \/ rooms[r].status = "none" /\ rooms'[r].status = "active"
         \/ rooms[r].status = "active"
              /\ rooms'[r].status \in {"expired", "closed"}]_vars

\* the step of worker p that runs the release script
Releases(p) == pc[p] = "J_rel" /\ pc'[p] # "J_rel"

\* C5: a release with a token that is not the lock's current value changes
\* no lock: a holder whose lock expired does not delete the lock another
\* holder acquired since.
C5_StaleReleaseIsNoOp ==
  [][\A p \in Procs :
       (Releases(p) /\ kv_lock[lv[p].room] # lv[p].tok)
          => kv_lock' = kv_lock]_vars

\* holder A is about to release, its lock expired, and holder B, inside
\* its transaction, holds the key with its own token
C5_Witness ==
  \E p \in Procs, q \in Procs :
     /\ p # q
     /\ pc[p] = "J_rel" /\ lv[p].tok # Absent
     /\ InJoinTx(q) /\ lv[q].room = lv[p].room
     /\ kv_lock[lv[p].room] = lv[q].tok
     /\ lv[q].tok # lv[p].tok

\* C6: a joinRoom call that acquired the lock has released it when it
\* returns, whether its transaction committed or threw: a lock key only
\* ever holds the token of a call still between acquire and release.
C6_LockReleasedOnReturn ==
  /\ \A k \in LockKeys :
       kv_lock[k] # Absent =>
         \E p \in Procs : HoldsLock(p) /\ lv[p].tok = kv_lock[k]
                            /\ lv[p].room = k
  /\ \A p \in Procs :
       (pc[p] = "done" /\ ret[p].op = "join" /\ ret[p].tok # Absent)
          => \A k \in LockKeys : kv_lock[k] # ret[p].tok

\* a call that took the lock and whose transaction threw has returned, and
\* so has one whose transaction committed
C6_Witness ==
  \E p \in Procs, q \in Procs :
     /\ pc[p] = "done" /\ ret[p].op = "join" /\ ret[p].tok # Absent
     /\ ret[p].res = "RoomFull"
     /\ pc[q] = "done" /\ ret[q].op = "join" /\ ret[q].tok # Absent
     /\ ret[q].res = "ok"

\* the committing step of a joinRoom of worker p
JoinWrites(p) == pc[p] = "J_tx3" /\ pc'[p] # "J_tx3"

\* C10: a user who left a room and joins again gets the existing row
\* reactivated: no (room, user) pair ever has two rows, the call reports
\* isRejoining = true, and the row keeps the join_order of its first join.
C10_RejoinReactivatesRow ==
  /\ [](\A r \in RoomIds, u \in Users : Cardinality(RowsOf(r, u)) <= 1)
  /\ [][\A m \in members :
          \E n \in members' :
             n.id = m.id /\ n.room = m.room /\ n.user = m.user
               /\ n.join_order = m.join_order]_vars
  /\ [][\A p \in Procs :
          (JoinWrites(p) /\ RowsOf(lv[p].room, lv[p].user) # {}) =>
             /\ pc'[p] = "J_c1"
             /\ lv'[p].flag
             /\ \A m \in RowsOf(lv[p].room, lv[p].user) :
                  /\ m.status = "left"
                  /\ [m EXCEPT !.status = "active"] \in members'
                  /\ Cardinality(members') = Cardinality(members)]_vars
  /\ [][\A p \in Procs :
          (Releases(p) /\ InJoin(p)) =>
             /\ ret'[p].flag = lv[p].flag
             /\ (lv[p].flag => ret'[p].res = "ok")]_vars

\* a rejoin has returned: isRejoining = true, and the row is active again
\* with a join_order above 1
C10_Witness ==
  \E p \in Procs :
     /\ pc[p] = "done" /\ ret[p].op = "join" /\ ret[p].res = "ok"
     /\ ret[p].flag
     /\ \E m \in RowsOf(ret[p].room, ret[p].user) :
          m.status = "active" /\ m.join_order > 1

\* both racing calls have returned
RaceOver == \A p \in Racers : pc[p] = "done"
RaceResults == {ret[p].res : p \in Racers}
RaceWinners == {p \in Racers : ret[p].res = "ok"}

\* C3 as claimed: of two concurrent joinRoom calls on a room with
\* max_members - 1 active members, exactly one succeeds and takes the last
\* slot and the other fails with RoomFull.
C3_OtherFailsRoomFull ==
  RaceOver =>
    /\ Cardinality(RaceWinners) = 1
    /\ RaceResults = {"ok", "RoomFull"}

\* C3 amended: exactly one succeeds and takes the last slot (the room then
\* holds max_members active members, the winner's row being the newest);
\* the other fails with RoomFull, or with Busy when it found the lock held.
C3_OneWinsOtherRefused ==
  RaceOver =>
    /\ Cardinality(RaceWinners) = 1
    /\ RaceResults \in {{"ok", "RoomFull"}, {"ok", "Busy"}}
    /\ Cardinality(ActiveMembers(RaceRoom)) = rooms[RaceRoom].cap
    /\ \A p \in RaceWinners :
         /\ ret[p].order = rooms[RaceRoom].cap
         /\ \E m \in ActiveMembers(RaceRoom) : m.user = ret[p].user
    /\ \A p \in Racers \ RaceWinners : RowsOf(RaceRoom, ret[p].user) = {}

\* the race is over and the loser was refused with RoomFull after the
\* winner had released the lock
C3_Witness ==
  /\ RaceOver
  /\ RaceResults = {"ok", "RoomFull"}
  /\ Cardinality(ActiveMembers(RaceRoom)) = rooms[RaceRoom].cap

\* the outcome of the call of the script that was started last
Answered == pc[1] = "done"
Last == ret[1]

\* C7: leaveRoom called twice in succession for the same member succeeds
\* both times; the second call returns the already-left row and changes
\* neither the membership rows nor the room (no second transfer or closure).
C7_LeaveTwice ==
  /\ []((script \in LeaveTwiceScripts /\ Answered) =>
          /\ spos = Len(script) - 1 =>
               Last.op = "leave" /\ Last.res = "ok" /\ ~Last.flag
          /\ spos = Len(script) =>
               Last.op = "leave" /\ Last.res = "ok" /\ Last.flag)
  /\ [][(script \in LeaveTwiceScripts /\ spos = Len(script)) =>
          rooms' = rooms /\ members' = members]_vars

\* the owner left twice: the first leave made the other member owner, the
\* second returned the left row
C7_Witness ==
  /\ script \in LeaveTwiceScripts
  /\ spos = Len(script) /\ Answered /\ Last.res = "ok" /\ Last.flag
  /\ \E m \in ActiveOwners(TheRoom) : m.user # Last.user
  /\ \E m \in RowsOf(TheRoom, Last.user) :
       m.status = "left" /\ m.role = "owner"

\* C8: createRoom with maxMembers = 2, joinRoom by X, joinRoom by X again,
\* leaveRoom by the creator, leaveRoom by X: the first join succeeds with
\* isRejoining = false, the second fails with AlreadyMember, the creator's
\* leave makes X the owner of the still active room, X's leave closes the
\* room with no active member.
C8_JoinLeaveScenario ==
  (Len(script) = 5 /\ Answered) =>
    LET x == script[2].user IN
    /\ spos = 1 => Last.res = "ok"
    /\ spos = 2 => Last.res = "ok" /\ ~Last.flag
    /\ spos = 3 => Last.res = "AlreadyMember"
    /\ spos = 4 =>
         /\ Last.res = "ok"
         /\ rooms[TheRoom].status = "active"
         /\ {m.user : m \in ActiveOwners(TheRoom)} = {x}
    /\ spos = 5 =>
         /\ Last.res = "ok"
         /\ rooms[TheRoom].status = "closed"
         /\ ActiveMembers(TheRoom) = {}

\* C9: createRoom followed at once by getRoomDetails for the creator is
\* served from the cache, succeeds, and returns a member count of 1 and
\* the creator with role = owner.
C9_CreateThenDetails ==
  (Len(script) = 2 /\ spos = 2 /\ Answered) =>
    /\ Last.op = "details"
    /\ Last.res = "ok"
    /\ Last.flag
    /\ Last.snap.memberCount = 1
    /\ [user |-> script[1].user, role |-> "owner"] \in Last.snap.list

\* C11: in every reachable state no two member rows of one room, active or
\* left, carry the same join_order.
C11_JoinOrderUnique ==
  \A m \in members, n \in members :
     (m.room = n.room /\ m.join_order = n.join_order) => m.id = n.id

\* ------------------------------------------------- concurrent leaves
\* SpecLeave: a room of LeaveSize members as createRoom, joins and earlier
\* leaves produce it (join_order 1..LeaveSize in joining order; the owners
\* that left before the current one keep role = owner on their left row),
\* and two workers that each call leaveRoom once.
LeaveSize == 3

LeaveRoomId == MinOf(RoomIds)
LeaveUsers == 1..LeaveSize

\* the rows when member k is the owner and the members of act, who joined
\* after k, are still active
LeaveRows(k, act) ==
  {[id |-> u, room |-> LeaveRoomId, user |-> u,
    role |-> IF u <= k THEN "owner" ELSE "member",
    status |-> IF u = k \/ u \in act THEN "active" ELSE "left",
    join_order |-> u] : u \in LeaveUsers}

LeaveInit ==
  \E k \in LeaveUsers, cached \in BOOLEAN :
    \E act \in SUBSET {u \in LeaveUsers : u > k} :
      /\ rooms = [r \in RoomIds |->
                    IF r = LeaveRoomId
                    THEN NewRoomRow(MinOf(Codes), LeaveSize, 1)
                    ELSE NoRoom]
      /\ members = LeaveRows(k, act)
      /\ kv_lock = [l \in LockKeys |-> Absent]
      /\ kv_code = [c \in Codes |->
                      IF c = MinOf(Codes) THEN LeaveRoomId ELSE Absent]
      /\ kv_room = [r \in RoomIds |->
                      IF r = LeaveRoomId /\ cached
                      THEN [present |-> TRUE,
                            memberCount |-> Cardinality(act) + 1,
                            hasMembers |-> FALSE, list |-> {},
                            status |-> "active"]
                      ELSE NoSnap]
      /\ kv_mset = [r \in RoomIds |-> {}]
      /\ kv_loc = {}
      /\ kv_chat = [r \in RoomIds |-> <<>>]
      /\ pc = [p \in Procs |-> "idle"]
      /\ lv = [p \in Procs |-> LvInit]
      /\ ret = [p \in Procs |-> RetInit]
      /\ calls = 0
      /\ script = <<>>
      /\ spos = 0
      /\ conn = {}
      /\ subs = {}
      /\ topic = <<>>
      /\ inbox = {}

LeaveStart(p) ==
  /\ ret[p].op = "none"
  /\ \E u \in LeaveUsers : StartLeave(p, LeaveRoomId, u)

LeaveNext ==
  \E p \in Procs : LeaveStart(p) \/ LeaveStep(p) \/ TxAbort(p)

SpecLeave == LeaveInit /\ [][LeaveNext]_vars

\* the other active members of the room, as worker p's transaction sees
\* the committed rows in the current state
OtherActive(p) == {m \in ActiveMembers(lv[p].room) : m.user # lv[p].user}

\* the step in which the leaving owner's transaction looks for a successor
FindsNext(p) == pc[p] = "L_tx3" /\ pc'[p] = "L_tx4"
\* the step in which the leaving owner's transaction writes and commits
OwnerCommits(p) == pc[p] = "L_tx4" /\ pc'[p] = "L_c1"

C12_WitnessClosed ==
  \E p \in Procs :
     /\ pc[p] = "done" /\ ret[p].op = "leave" /\ ret[p].res = "ok"
     /\ ActiveMembers(LeaveRoomId) = {}
     /\ rooms[LeaveRoomId].status = "closed"
     /\ rooms[LeaveRoomId].completed

\* C13: in every reachable state, concurrent leaveRoom calls by the owner
\* and by another member included, a room with at least one active member
\* has an active member with role = owner.
C13_ActiveRoomHasOwner ==
  \A r \in ExistingRooms :
     ActiveMembers(r) # {} => ActiveOwners(r) # {}

\* generateRoomCode has returned a code to worker p's createRoom, whose
\* transaction has not yet committed
HoldsCode(p) == lv[p].op = "create" /\ pc[p] = "C_tx"
\* the step in which generateRoomCode reserves and returns
ReturnsCode(p) == pc[p] = "G_set" /\ pc'[p] = "C_tx"

\* C15: a room code is held exclusively: concurrent generateRoomCode calls
\* never return one code to two callers while it is reserved, and never
\* return a code a durable room uses or the reservation cache holds.
C15_CodeHeldExclusively ==
  /\ [](\A p \in Procs, q \in Procs :
          (p # q /\ HoldsCode(p) /\ HoldsCode(q)) => lv[p].code # lv[q].code)
  /\ [][\A p \in Procs : ReturnsCode(p) =>
          /\ RoomsWithCode(lv[p].code) = {}
          /\ kv_code[lv[p].code] = Absent]_vars

\* ------------------------------------------------------------- faults
\* A durable or redis operation rejects (connection lost, timeout).  What
\* follows is the catch block or the propagation the source has there.

\* mutant: the cache is written although the transaction threw
C_txFails_cached(p) ==
  /\ pc[p] = "C_tx"
  /\ Goto(p, "C_cache", [lv[p] EXCEPT !.room = FreshRoomId])
  /\ UNCHANGED <<dbVars, kv_lock, cacheVars, calls, scriptVars, sockVars>>

\* createRoom: prisma.$transaction throws, nothing is committed; catch
C_txFails(p) ==
  /\ pc[p] = "C_tx"
  /\ Goto(p, "C_fail", [lv[p] EXCEPT !.err = "DbError"])
  /\ UNCHANGED <<dbVars, kv_lock, cacheVars, calls, scriptVars, sockVars>>

\* cacheRoomData: its own try / catch logs the error; createRoom goes on
C_cacheFails(p) ==
  /\ pc[p] = "C_cache"
  /\ Goto(p, "C_map", lv[p])
  /\ UNCHANGED <<dbVars, kv_lock, cacheVars, calls, scriptVars, sockVars>>

\* createRoom: the setEx of the code mapping throws inside the try; catch
C_mapFails(p) ==
  /\ pc[p] = "C_map"
  /\ Goto(p, "C_fail", [lv[p] EXCEPT !.err = "RedisError"])
  /\ UNCHANGED <<dbVars, kv_lock, cacheVars, calls, scriptVars, sockVars>>

\* updateRoomMemberCount: its own try / catch logs the error
J_countFails(p) ==
  /\ pc[p] \in {"J_c1", "J_c2"}
  /\ Goto(p, "J_rel", [lv[p] EXCEPT !.snap = NoSnap])
  /\ UNCHANGED <<dbVars, kv_lock, cacheVars, calls, scriptVars, sockVars>>

\* joinRoom: redisClient.eval in the finally block throws; the rejection
\* replaces the result of the try block
J_relFails(p) ==
  /\ pc[p] = "J_rel"
  /\ Return(p, [Outcome(p, "RedisError") EXCEPT !.order = JoinedOrder(p)])
  /\ UNCHANGED <<dbVars, kv_lock, cacheVars, calls, scriptVars, sockVars>>

\* joinRoom: a statement of prisma.$transaction rejects; the transaction
\* rolls back and the error passes through the finally block
J_txFails(p) ==
  /\ pc[p] \in {"J_tx1", "J_tx2", "J_tx3"}
  /\ Goto(p, "J_rel", [lv[p] EXCEPT !.err = "DbError"])
  /\ UNCHANGED <<dbVars, kv_lock, cacheVars, calls, scriptVars, sockVars>>

\* leaveRoom: a statement of prisma.$transaction rejects; the transaction
\* rolls back and leaveRoom throws
L_txFails(p) ==
  /\ pc[p] \in {"L_tx1", "L_tx2", "L_tx3", "L_tx4"}
  /\ Return(p, Outcome(p, "DbError"))
  /\ UNCHANGED <<dbVars, kv_lock, cacheVars, calls, scriptVars, sockVars>>

L_countFails(p) ==
  /\ pc[p] \in {"L_c1", "L_c2"}
  /\ Goto(p, "L_del", [lv[p] EXCEPT !.snap = NoSnap])
  /\ UNCHANGED <<dbVars, kv_lock, cacheVars, calls, scriptVars, sockVars>>

\* leaveRoom: redisClient.del / sRem, outside any try, throws
L_delFails(p) ==
  /\ pc[p] \in {"L_del", "L_srem"}
  /\ Return(p, Outcome(p, "RedisError"))
  /\ UNCHANGED <<dbVars, kv_lock, cacheVars, calls, scriptVars, sockVars>>

Fault(p) ==
  C_txFails(p) \/ C_cacheFails(p) \/ C_mapFails(p) \/ J_txFails(p)
    \/ J_countFails(p) \/ J_relFails(p) \/ L_txFails(p) \/ L_countFails(p)
    \/ L_delFails(p)

\* SpecFault: the workers of Spec, a smaller budget of calls, and any
\* durable or redis operation of createRoom, joinRoom and leaveRoom may
\* fail.
MaxFaultCalls == 3

FaultStart(p) ==
  /\ calls < MaxFaultCalls
  /\ \/ \E u \in Users, cap \in Caps : StartCreate(p, u, cap)
     \/ \E c \in Codes, u \in Users : StartJoin(p, c, u)
     \/ \E r \in RoomIds, u \in Users : StartLeave(p, r, u)

FaultNext ==
  \/ \E p \in Procs :
       \/ FaultStart(p)
       \/ CreateStep(p) \/ JoinStep(p) \/ LeaveStep(p)
       \/ TxAbort(p)
       \/ Fault(p)
       \/ Respond(p)
  \/ \E k \in LockKeys : LockExpire(k)

SpecFault == Init /\ [][FaultNext]_vars

\* the step in which worker p's createRoom, having been given a code,
\* throws to its caller
CreateFails(p) ==
  /\ lv[p].op = "create" /\ pc[p] # "done" /\ pc'[p] = "done"
  /\ ret'[p].res \notin {"ok", "AllocationExhausted"}

PostCommit(p) ==
  \/ pc[p] \in {"C_cache", "C_map", "J_c1", "J_c2"}
  \/ pc[p] = "C_fail" /\ lv[p].room # 0
  \/ pc[p] = "J_rel" /\ lv[p].err = "none"
  \/ pc[p] \in {"L_c1", "L_c2", "L_del", "L_srem"} /\ ~lv[p].flag

\* C20: a failure of a cache or ephemeral-store operation that follows the
\* committed durable mutation of createRoom, joinRoom or leaveRoom does
\* not make the call report failure and does not undo the committed
\* change.
C20_CacheFailureNotReported ==
  [][\A p \in Procs : (PostCommit(p) /\ pc'[p] # pc[p]) =>
       /\ UNCHANGED dbVars
       /\ pc'[p] = "done" => ret'[p].res = "ok"]_vars

\* ---------------------------------------------------------------- chat
\* SpecChat: a room with two active members and one member who left; two
\* workers run send-message and request-chat-history handlers.
MaxChatCalls == 4

ChatInit ==
  /\ rooms = [r \in RoomIds |->
                IF r = LeaveRoomId
                THEN NewRoomRow(MinOf(Codes), LeaveSize, 1)
                ELSE NoRoom]
  /\ members = LeaveRows(1, {2})
  /\ kv_lock = [l \in LockKeys |-> Absent]
  /\ kv_code = [c \in Codes |-> Absent]
  /\ kv_room = [r \in RoomIds |-> NoSnap]
  /\ kv_mset = [r \in RoomIds |-> {}]
  /\ kv_loc = {}
  /\ kv_chat = [r \in RoomIds |-> <<>>]
  /\ pc = [p \in Procs |-> "idle"]
  /\ lv = [p \in Procs |-> LvInit]
  /\ ret = [p \in Procs |-> RetInit]
  /\ calls = 0
  /\ script = <<>>
  /\ spos = 0
  /\ conn = {}
  /\ subs = {}
  /\ topic = <<>>
  /\ inbox = {}

ChatStart(p) ==
  /\ calls < MaxChatCalls
  /\ \E u \in LeaveUsers :
       \/ BeginSend(p, LeaveRoomId, u)
       \/ BeginHistory(p, LeaveRoomId, u)
  /\ UNCHANGED <<scriptVars, sockVars>>

ChatNext ==
  \/ \E p \in Procs :
       ChatStart(p) \/ SendStep(p) \/ HistoryStep(p) \/ Respond(p)
  \/ SubChat

SpecChat == ChatInit /\ [][ChatNext]_vars

\* the messages of a list are in the order they were appended, oldest first
OldestFirst(list) ==
  \A i \in 1..Len(list), j \in 1..Len(list) :
     i < j => list[i].id < list[j].id

\* the steps that append a message and that answer a history request
Appends(p) == pc[p] = "M_push" /\ pc'[p] = "M_pub"
AnswersHistory(p) == pc[p] = "H_range" /\ pc'[p] = "done"

\* C19: the chat history of a room is returned oldest message first, in
\* the order the messages were appended, and a message appended by
\* send-message is the last element of a history requested immediately
\* afterwards.
C19_HistoryOldestFirst ==
  /\ [][\A p \in Procs : Appends(p) =>
          LET old == kv_chat[lv[p].room]
              new == kv_chat'[lv[p].room] IN
          /\ Len(new) = Len(old) + 1
          /\ \E i \in 1..Len(new) :
               /\ new[i].user = lv[p].user
               /\ \A k \in 1..Len(old) : new[i].id > old[k].id
               /\ [k \in 1..Len(old) |->
                     new[IF k < i THEN k ELSE k + 1]] = old
               \* a history of the list as it now is ends with the message
               /\ ChatHistory(new)[Len(new)] = new[i]]_vars
  /\ [][\A p \in Procs : AnswersHistory(p) =>
          LET stored == kv_chat[lv[p].room] IN
          /\ Len(ret'[p].hist) = Len(stored)
          /\ {ret'[p].hist[i] : i \in 1..Len(stored)}
               = {stored[i] : i \in 1..Len(stored)}
          /\ OldestFirst(ret'[p].hist)]_vars

\* a history of three messages, sent by both members, has been returned
C19_Witness ==
  \E p \in Procs :
     /\ pc[p] = "done" /\ ret[p].op = "history" /\ ret[p].res = "ok"
     /\ Len(ret[p].hist) = 3
     /\ ret[p].hist[1].user # ret[p].hist[3].user
     /\ ret[p].hist[3] = Head(kv_chat[ret[p].room])

\* -------------------------------------------------------------- sweeps
\* SpecSweep: rooms as createRoom and a leaveRoom of the owner leave them
\* (active with their owner, or closed), each room with the code it was
\* created with and with its cache entries present or run out; the owner's
\* socket sends messages and locations, the clock passes expiry times, and
\* then the cleanup job runs cleanupExpiredRooms once per worker, one run
\* after the other.
MaxPrepCalls == 2

SweepKinds == {"none", "active", "closed"}
SweepUser == MinOf(Users)
\* the room code room r was created with
SweepCode(r) == r

SweepRoom(r, kind) ==
  CASE kind = "none" -> NoRoom
    [] kind = "active" -> NewRoomRow(SweepCode(r), MinCap, SweepUser)
    [] kind = "closed" ->
         ClosedRoom(NewRoomRow(SweepCode(r), MinCap, SweepUser))

SweepRows(r, kind) ==
  CASE kind = "none" -> {}
    [] kind = "active" -> {OwnerRow(r, r, SweepUser)}
    [] kind = "closed" -> {MarkedLeft(OwnerRow(r, r, SweepUser))}

SweepInit ==
  \E kind \in [RoomIds -> SweepKinds], cached \in [RoomIds -> BOOLEAN] :
    /\ \A r \in RoomIds : kind[r] = "none" => ~cached[r]
    /\ rooms = [r \in RoomIds |-> SweepRoom(r, kind[r])]
    /\ members = UNION {SweepRows(r, kind[r]) : r \in RoomIds}
    /\ kv_lock = [l \in LockKeys |-> Absent]
    /\ kv_code = [r \in RoomIds |-> IF cached[r] THEN r ELSE Absent]
    /\ kv_room = [r \in RoomIds |->
                    IF cached[r]
                    THEN [present |-> TRUE,
                          memberCount |->
                            NewMemberCount(1, IF kind[r] = "closed"
                                              THEN -1 ELSE 0),
                          hasMembers |-> FALSE, list |-> {},
                          status |-> "active"]
                    ELSE NoSnap]
    /\ kv_mset = [r \in RoomIds |->
                    IF cached[r] /\ kind[r] = "active"
                    THEN {SweepUser} ELSE {}]
    /\ kv_loc = {}
    /\ kv_chat = [r \in RoomIds |-> <<>>]
    /\ pc = [p \in Procs |-> "idle"]
    /\ lv = [p \in Procs |-> LvInit]
    /\ ret = [p \in Procs |-> RetInit]
    /\ calls = 0
    /\ script = <<>>
    /\ spos = 0
    /\ conn = {}
    /\ subs = {}
    /\ topic = <<>>
    /\ inbox = {}

\* no run of the cleanup job has started
NoSweepYet == \A q \in Procs : lv[q].op # "cleanup" /\ ret[q].op # "cleanup"

\* socket events of the owner before the sweeps
PrepStart(p) ==
  /\ NoSweepYet
  /\ calls < MaxPrepCalls
  /\ \E r \in RoomIds :
       \/ BeginSend(p, r, SweepUser)
       \/ BeginLocate(p, r, SweepUser)
  /\ UNCHANGED <<scriptVars, sockVars>>

PrepRespond(p) == ret[p].op # "cleanup" /\ Respond(p)

SweepTick(r) == NoSweepYet /\ TimePasses(r)

\* setInterval(cleanupExpiredRooms): worker p runs the p-th sweep, when
\* the sweeps before it have returned and no handler is in progress
SweepStart(p) ==
  /\ ret[p].op = "none"
  /\ \A q \in Procs \ {p} : pc[q] \in {"idle", "done"}
  /\ \A q \in Procs : q < p => pc[q] = "done" /\ ret[q].op = "cleanup"
  /\ StartCleanup(p)

SweepNext ==
  \/ \E p \in Procs :
       \/ PrepStart(p) \/ SendStep(p) \/ LocateStep(p) \/ PrepRespond(p)
       \/ SweepStart(p) \/ CleanupStep(p)
  \/ \E r \in RoomIds : SweepTick(r)
  \/ SubChat
  \/ SubLoc

SpecSweep == SweepInit /\ [][SweepNext]_vars

\* cleanupExpiredRooms: a durable or redis operation rejects; the catch
\* around the whole body logs the error and the function returns
K_fails(p) ==
  /\ pc[p] \in {"K_find", "K_upd", "K_purge"}
  /\ Return(p, Outcome(p, "Logged"))
  /\ UNCHANGED <<dbVars, kv_lock, cacheVars, calls, scriptVars, sockVars>>

SweepFaultNext == SweepNext \/ \E p \in Procs : K_fails(p)

SpecSweepFault == SweepInit /\ [][SweepFaultNext]_vars

\* a run of cleanupExpiredRooms by another worker has returned without
\* error before worker p's run
SweptBefore(p) ==
  \E q \in Procs \ {p} :
     pc[q] = "done" /\ ret[q].op = "cleanup" /\ ret[q].res = "ok"

\* C16: cleanupExpiredRooms run twice in succession, no other operation in
\* between: the second run finds no active room past its expiry and makes
\* no status update and no purge.
C16_SecondSweepFindsNothing ==
  /\ [](\A p \in Procs :
          (lv[p].op = "cleanup" /\ SweptBefore(p)) => pc[p] = "K_find")
  /\ [][\A p \in Procs :
          (pc[p] = "K_find" /\ pc'[p] # "K_find" /\ SweptBefore(p)) =>
             /\ ExpiredActive = {}
             /\ pc'[p] = "done" /\ ret'[p].res = "ok"
             /\ UNCHANGED <<dbVars, cacheVars>>]_vars

\* both runs have returned, and the first one had expired a room
C16_Witness ==
  /\ \A p \in Procs :
       pc[p] = "done" /\ ret[p].op = "cleanup" /\ ret[p].res = "ok"
  /\ \E r \in ExistingRooms : rooms[r].status = "expired"

\* no cache or ephemeral key of room r exists
Purged(r) ==
  /\ ~kv_room[r].present
  /\ kv_mset[r] = {}
  /\ kv_code[rooms[r].code] = Absent
  /\ ~\E k \in kv_loc : k[1] = r
  /\ kv_chat[r] = <<>>

\* C17: a failure while cleaning up one expired room does not abort
\* cleanupExpiredRooms for the other rooms of the batch, and a room whose
\* cleanup did not complete is processed again by the next sweep (it is
\* still an active room past its expiry).
C17_FailureKeepsBatchGoing ==
  [][\A p \in Procs : pc[p] = "K_purge" =>
       /\ (Cardinality(lv[p].todo) > 1 /\ pc'[p] # pc[p])
            => pc'[p] = "K_purge"
       /\ pc'[p] = "done" =>
            \A r \in lv[p].todo :
               (~Purged(r))' =>
                  rooms'[r].status = "active" /\ rooms'[r].past]_vars

\* C18: when cleanupExpiredRooms has completed without error, every room
\* that was active and past its expiry has status = expired with a
\* completion timestamp, and its snapshot, cached member set, code mapping,
\* location samples and chat log no longer exist.
C18_SweepExpiresAndPurges ==
  /\ [][\A p \in Procs :
          (pc[p] = "K_find" /\ pc'[p] = "K_upd") =>
             lv'[p].todo = {r \in ExistingRooms :
                              rooms[r].status = "active" /\ rooms[r].past}]_vars
  /\ [](\A p \in Procs :
          (pc[p] = "done" /\ ret[p].op = "cleanup" /\ ret[p].res = "ok") =>
             \A r \in ExistingRooms :
                rooms[r].past =>
                  /\ rooms[r].status \in {"expired", "closed"}
                  /\ rooms[r].status = "expired" =>
                       rooms[r].completed /\ Purged(r))

\* the owner's socket has sent its events, the first sweep has completed,
\* and a room is expired with none of its keys left
C18_Witness ==
  \E p \in Procs, r \in ExistingRooms :
     /\ pc[p] = "done" /\ ret[p].op = "cleanup" /\ ret[p].res = "ok"
     /\ rooms[r].status = "expired" /\ Purged(r)
     /\ \E q \in Procs \ {p} : lv[q].op = "none" /\ pc[q] = "idle"
     /\ calls = MaxPrepCalls + 1

\* ------------------------------------------------ cache after commit
\* the transaction of worker p's createRoom, joinRoom or leaveRoom has
\* returned without throwing
TxReturned(p) ==
  \/ pc[p] \in {"C_cache", "C_map", "J_c1", "J_c2", "L_c1", "L_c2", "L_del",
                "L_srem"}
  \/ pc[p] = "C_fail" /\ lv[p].room # 0
  \/ pc[p] = "J_rel" /\ lv[p].err = "none"

\* worker p's call takes a step
StepOf(p) == pc'[p] # pc[p] \/ lv'[p] # lv[p]

\* C21: the cached snapshot, the cached member count and the cached member
\* set are written only by a createRoom, joinRoom or leaveRoom whose
\* transaction has returned; a call whose transaction throws or rolls back
\* never gets there and leaves them unchanged.
C21_CacheWrittenAfterCommit ==
  [][\A p \in Procs :
       (lv[p].op \in {"create", "join", "leave"} /\ StepOf(p)
          /\ ~TxReturned(p)) =>
         /\ kv_room' = kv_room
         /\ kv_mset' = kv_mset
         /\ TxReturned(p)' =>
              \* the step is the commit, or the return of the row that
              \* had already left
              \/ dbVars' # dbVars
              \/ pc[p] = "L_tx1" /\ lv'[p].flag]_vars

\* a joinRoom whose transaction rolled back has thrown; the snapshot of
\* its room is cached and still counts the members the room has
C21_Witness ==
  \E p \in Procs :
     /\ pc[p] = "done" /\ ret[p].op = "join" /\ ret[p].res = "DbError"
     /\ ret[p].room \in ExistingRooms
     /\ kv_room[ret[p].room].present
     /\ kv_room[ret[p].room].memberCount
          = Cardinality(ActiveMembers(ret[p].room))

\* ------------------------------------------------------ the held lock
\* worker p's joinRoom is at its SET NX and the key exists
FindsLockHeld(p) == pc[p] = "J_lock" /\ kv_lock[lv[p].room] # Absent

\* C22: a joinRoom that finds the room lock held fails in that same step
\* with the Busy error: it does not wait or try again, it changes no
\* membership row and no cache entry, and the holder's lock is left as it
\* is.
C22_BusyFailsAtOnce ==
  [][\A p \in Procs : (FindsLockHeld(p) /\ StepOf(p)) =>
       /\ pc'[p] = "done"
       /\ ret'[p].res = "Busy"
       /\ UNCHANGED <<dbVars, cacheVars, kv_lock>>]_vars

\* one joinRoom has been refused with Busy while the other one, inside its
\* transaction, still holds the lock under its own token
C22_Witness ==
  \E p \in Procs, q \in Procs :
     /\ pc[p] = "done" /\ ret[p].op = "join" /\ ret[p].res = "Busy"
     /\ InJoinTx(q)
     /\ lv[q].room = ret[p].room
     /\ kv_lock[lv[q].room] = lv[q].tok

\* --------------------------------- two leaves of the same member
\* worker p's conditional update runs and finds that another call has
\* already made the row left
UpdateFindsLeft(p) ==
  /\ pc[p] = "L_tx2" /\ StepOf(p)
  /\ ~LockedByOther(lv[p].row, p)
  /\ RowById(lv[p].row).status = "left"

\* the step in which worker p's transaction marks its member left
MakesLeft(p) ==
  /\ lv[p].op = "leave" /\ StepOf(p)
  /\ \E m \in RowsOf(lv[p].room, lv[p].user) :
       m.status = "active" /\ MarkedLeft(m) \in members'

\* C23: of two concurrent leaveRoom calls for the same active member, one
\* makes the transition from active to left with its side effects; the
\* other one finds the row no longer active at its conditional update,
\* reads it again and returns the left row: it does not fail.
C23_SecondLeaveReturnsLeftRow ==
  /\ [][\A p \in Procs, q \in Procs :
          p # q => ~(MakesLeft(p) /\ MakesLeft(q))]_vars
  /\ [][\A p \in Procs :
          UpdateFindsLeft(p) => ~(pc'[p] = "done" /\ ret'[p].res # "ok")]_vars

\* ----------------------------------------- joins into a closed room
\* the step in which worker p's joinRoom inserts or reactivates its row
JoinWritesRow(p) == pc[p] = "J_tx3" /\ StepOf(p) /\ members' # members

\* C24: joinRoom never inserts or reactivates a member in a room that is
\* not active, also when a leaveRoom closing the room or a
\* cleanupExpiredRooms expiring it runs between the steps of the join: at
\* the write of the membership row the room's status is active.
C24_NoJoinIntoInactiveRoom ==
  [][\A p \in Procs :
       JoinWritesRow(p) => rooms[lv[p].room].status = "active"]_vars

\* ------------------------------------------------------ room details
\* SpecDetails: the room of SpecLeave with its snapshot cached or run out
\* of its TTL and a cached member set that holds some of the active
\* members; two workers call getRoomDetails and leaveRoom, and the TTL of
\* the snapshot and of the member set may run out.
MaxDetailCalls == 3

ActiveUsers(r) == {m.user : m \in ActiveMembers(r)}

DetailsInit ==
  \E k \in LeaveUsers, cached \in BOOLEAN :
    \E act \in SUBSET {u \in LeaveUsers : u > k} :
      \E ms \in SUBSET ({k} \cup act) :
        /\ rooms = [r \in RoomIds |->
                      IF r = LeaveRoomId
                      THEN NewRoomRow(MinOf(Codes), LeaveSize, 1)
                      ELSE NoRoom]
        /\ members = LeaveRows(k, act)
        /\ kv_lock = [l \in LockKeys |-> Absent]
        /\ kv_code = [c \in Codes |->
                        IF c = MinOf(Codes) THEN LeaveRoomId ELSE Absent]
        /\ kv_room = [r \in RoomIds |->
                        IF r = LeaveRoomId /\ cached
                        THEN [present |-> TRUE,
                              memberCount |-> Cardinality(act) + 1,
                              hasMembers |-> FALSE, list |-> {},
                              status |-> "active"]
                        ELSE NoSnap]
        /\ kv_mset = [r \in RoomIds |-> IF r = LeaveRoomId THEN ms ELSE {}]
        /\ kv_loc = {}
        /\ kv_chat = [r \in RoomIds |-> <<>>]
        /\ pc = [p \in Procs |-> "idle"]
        /\ lv = [p \in Procs |-> LvInit]
        /\ ret = [p \in Procs |-> RetInit]
        /\ calls = 0
        /\ script = <<>>
        /\ spos = 0
        /\ conn = {}
        /\ subs = {}
        /\ topic = <<>>
        /\ inbox = {}

DetailsStart(p) ==
  /\ calls < MaxDetailCalls
  /\ \E u \in LeaveUsers :
       \/ \E r \in RoomIds : StartDetails(p, r, u)
       \/ StartLeave(p, LeaveRoomId, u)

\* the 3600 s of setEx(`room:${roomId}`) run out: not while the call that
\* has just written the key is still at its next await
SnapExpire(r) ==
  /\ kv_room[r].present
  /\ ~\E p \in Procs : pc[p] = "R_sadd" /\ lv[p].room = r
  /\ kv_room' = [kv_room EXCEPT ![r] = NoSnap]
  /\ UNCHANGED <<dbVars, kv_lock, kv_code, kv_mset, kv_loc, kv_chat, pc, lv,
                 ret, calls, scriptVars, sockVars>>

\* the 3600 s of expire(`room:${roomId}:members`) run out
MsetExpire(r) ==
  /\ kv_mset[r] # {}
  /\ kv_mset' = [kv_mset EXCEPT ![r] = {}]
  /\ UNCHANGED <<dbVars, kv_lock, kv_code, kv_room, kv_loc, kv_chat, pc, lv,
                 ret, calls, scriptVars, sockVars>>

DetailsNext ==
  \/ \E p \in Procs :
       \/ DetailsStart(p)
       \/ DetailsStep(p) \/ LeaveStep(p) \/ TxAbort(p)
       \/ Respond(p)
  \/ SnapExpire(LeaveRoomId)
  \/ MsetExpire(LeaveRoomId)

SpecDetails == DetailsInit /\ [][DetailsNext]_vars

\* the steps of a getRoomDetails that missed the cache
ReadsDurable(p) == pc[p] = "R_db" /\ pc'[p] = "R_set"
WritesSnapshot(p) == pc[p] = "R_set" /\ StepOf(p)
AddsMembers(p) == pc[p] = "R_sadd" /\ StepOf(p)
MissReturns(p) ==
  /\ pc[p] \in {"R_set", "R_sadd"} /\ pc'[p] = "done"
  /\ ret'[p].res = "ok"
\* the users of the member list a getRoomDetails has read
ReadUsers(p) == {m.user : m \in lv[p].snap.list}
\* no call of another worker is between its first and its last step
Alone(p) == \A q \in Procs \ {p} : pc[q] \in {"idle", "done"}

\* C25 as stated: when a getRoomDetails that missed the cache returns (no
\* other call in progress), the cached snapshot exists and the cached
\* member set equals the set of the room's active members.
C25_MissRepopulatesExactly ==
  [][\A p \in Procs : (MissReturns(p) /\ Alone(p)) =>
       /\ kv_room'[lv[p].room].present
       /\ kv_mset'[lv[p].room] = ActiveUsers(lv[p].room)]_vars

\* what the miss path does: it reads the room with its active members,
\* writes that view as the snapshot and adds the users it read to the
\* cached member set; the set equals the room's active members when it
\* held no other user before and the active members are still the ones
\* that were read.
MissPathWrites ==
  /\ [][\A p \in Procs : ReadsDurable(p) =>
          /\ lv'[p].snap.present
          /\ {m.user : m \in lv'[p].snap.list} = ActiveUsers(lv[p].room)
          /\ lv'[p].snap.memberCount = Cardinality(ActiveUsers(lv[p].room))]_vars
  /\ [][\A p \in Procs : WritesSnapshot(p) =>
          /\ kv_room'[lv[p].room] = lv[p].snap
          /\ pc'[p] = "done" => ReadUsers(p) = {}]_vars
  /\ [][\A p \in Procs : AddsMembers(p) =>
          /\ kv_mset'[lv[p].room] = kv_mset[lv[p].room] \cup ReadUsers(p)
          /\ (/\ kv_mset[lv[p].room] \subseteq ActiveUsers(lv[p].room)
              /\ ReadUsers(p) = ActiveUsers(lv[p].room)) =>
               kv_mset'[lv[p].room] = ActiveUsers(lv[p].room)]_vars

\* --------------------------------------------- who gets the room data
\* worker p's getRoomDetails returns or throws in this step
DetailsEnds(p) ==
  lv[p].op = "details" /\ pc[p] # "done" /\ pc'[p] = "done"

\* the membership check of getRoomDetails, on the path the call is on:
\* the cached member set after a hit, the durable active members after a
\* miss
Authorized(p) ==
  \/ pc[p] = "R_ismem" /\ lv[p].user \in kv_mset[lv[p].room]
  \/ pc[p] = "R_db" /\ lv[p].user \in ActiveUsers(lv[p].room)

\* a getRoomDetails that has passed its check only caches and returns
PastCheck(p) == pc[p] \in {"R_set", "R_sadd"}

\* C26 as stated: a getRoomDetails with a userId returns the room only if
\* the user is in the cached member set (hit) or among the durable
\* active members (miss); every other call fails with AccessDenied and
\* returns no room data.
C26_DeniedUnlessMember ==
  [][\A p \in Procs :
       /\ (DetailsEnds(p) /\ ~PastCheck(p)) =>
            IF Authorized(p) THEN ret'[p].res = "ok"
            ELSE ret'[p].res = "AccessDenied" /\ ret'[p].snap = NoSnap
       /\ (lv[p].op = "details" /\ ~PastCheck(p) /\ PastCheck(p)') =>
            Authorized(p)]_vars

\* C26, amended: a getRoomDetails with a userId returns the room only if
\* the user is in the cached member set (hit) or among the durable
\* active members (miss); every other call fails and returns no room
\* data: with AccessDenied, or, after a miss for a room that has no
\* durable row, with NotFound.
C26_RefusedUnlessMember ==
  [][\A p \in Procs :
       /\ (DetailsEnds(p) /\ ~PastCheck(p)) =>
            IF Authorized(p) THEN ret'[p].res = "ok"
            ELSE /\ ret'[p].snap = NoSnap
                 /\ ret'[p].res =
                      IF pc[p] = "R_db" /\ ~rooms[lv[p].room].exists
                      THEN "NotFound" ELSE "AccessDenied"
       /\ (DetailsEnds(p) /\ PastCheck(p)) => ret'[p].res = "ok"
       /\ (lv[p].op = "details" /\ ~PastCheck(p) /\ PastCheck(p)') =>
            Authorized(p)]_vars

\* a member who left asks for the room while the snapshot is cached and
\* the member set does not hold the user: the call is refused with
\* AccessDenied on the cache path and carries no room data
C26_Witness ==
  \E p \in Procs :
     /\ pc[p] = "done" /\ ret[p].op = "details"
     /\ ret[p].res = "AccessDenied" /\ ret[p].flag
     /\ ret[p].snap = NoSnap
     /\ kv_room[ret[p].room].present
     /\ ret[p].user \notin kv_mset[ret[p].room]
     /\ \E m \in RowsOf(ret[p].room, ret[p].user) : m.status = "left"

\* ------------------------------------------------------------ sockets
\* SpecSocket: the room of SpecChat (two active members and one member who
\* left), some of the three users connected, their sockets in the rooms
\* the connection handler joined them to; two workers run the handlers of
\* the socket events, and the pub/sub listeners run.
MaxSockCalls == 3

SockInit ==
  \E cs \in SUBSET LeaveUsers :
    /\ rooms = [r \in RoomIds |->
                  IF r = LeaveRoomId
                  THEN NewRoomRow(MinOf(Codes), LeaveSize, 1)
                  ELSE NoRoom]
    /\ members = LeaveRows(1, {2})
    /\ kv_lock = [l \in LockKeys |-> Absent]
    /\ kv_code = [c \in Codes |-> Absent]
    /\ kv_room = [r \in RoomIds |-> NoSnap]
    /\ kv_mset = [r \in RoomIds |-> {}]
    /\ kv_loc = {}
    /\ kv_chat = [r \in RoomIds |-> <<>>]
    /\ pc = [p \in Procs |-> "idle"]
    /\ lv = [p \in Procs |-> LvInit]
    /\ ret = [p \in Procs |-> RetInit]
    /\ calls = 0
    /\ script = <<>>
    /\ spos = 0
    /\ conn = cs
    /\ subs = {<<LeaveRoomId, u>> : u \in cs \cap {1, 2}}
    /\ topic = <<>>
    /\ inbox = {}

\* the connection handler of u's socket has registered the event handlers
Listening(u) ==
  u \in conn /\ \A q \in Procs : ~(pc[q] = "N_find" /\ lv[q].user = u)

\* an event of a connected socket arrives, or a socket connects
SockStart(p) ==
  /\ calls < MaxSockCalls
  /\ \/ \E u \in LeaveUsers \ conn : BeginConnect(p, u)
     \/ \E u \in {v \in conn : Listening(v)} :
          \/ BeginJoinRoom(p, LeaveRoomId, u) /\ UNCHANGED sockVars
          \/ BeginLocate(p, LeaveRoomId, u) /\ UNCHANGED sockVars
          \/ BeginSend(p, LeaveRoomId, u) /\ UNCHANGED sockVars
          \/ BeginLeaveRoom(p, LeaveRoomId, u) /\ UNCHANGED sockVars
          \/ BeginDisconnect(p, u)
  /\ UNCHANGED scriptVars

SockNext ==
  \/ \E p \in Procs :
       \/ SockStart(p)
       \/ N_find(p) \/ JoinRoomStep(p) \/ LocateStep(p) \/ SendStep(p)
       \/ LeaveRoomStep(p) \/ DisconnectStep(p)
       \/ Respond(p)
  \/ SubChat
  \/ SubLoc

SpecSocket == SockInit /\ [][SockNext]_vars

\* the samples stored for (room, user)
SamplesOf(r, u) == {k[3] : k \in {l \in kv_loc : l[1] = r /\ l[2] = u}}

\* worker p's handler is at its membership check, which fails
Refused(p) ==
  /\ pc[p] \in {"U_find", "M_find"} /\ StepOf(p)
  /\ ~IsActiveMember(lv[p].room, lv[p].user)

\* C27: a location-update of a user without an active membership row of
\* the room ends at the check: no sample is stored, nothing is published
\* and nothing is emitted to the room.  For an active member the sample is
\* stored under (room, user) in place of the one stored before, so that a
\* key holds one sample, the one written last.
C27_LocationOnlyFromMembers ==
  /\ [][\A p \in Procs : (Refused(p) /\ pc[p] = "U_find") =>
          /\ pc'[p] = "done" /\ ret'[p].res = "NotAuthorized"
          /\ UNCHANGED <<kv_loc, topic, inbox>>]_vars
  /\ [][\A p \in Procs :
          (pc[p] = "U_find" /\ StepOf(p)
             /\ IsActiveMember(lv[p].room, lv[p].user)) =>
            pc'[p] = "U_set" /\ lv'[p] = lv[p]]_vars
  /\ [][\A p \in Procs : (pc[p] = "U_set" /\ StepOf(p)) =>
          /\ SamplesOf(lv[p].room, lv[p].user)' = {lv[p].n}
          /\ \A r \in RoomIds, u \in Users :
               <<r, u>> # <<lv[p].room, lv[p].user>> =>
                 SamplesOf(r, u)' = SamplesOf(r, u)]_vars
  /\ [](\A r \in RoomIds, u \in Users : Cardinality(SamplesOf(r, u)) <= 1)

\* a member whose earlier location-update was confirmed with one sample
\* has sent another one: the key holds the later sample only
C27_Witness ==
  \E p \in Procs, s \in Samples :
     /\ pc[p] = "done" /\ ret[p].op = "locate" /\ ret[p].res = "ok"
     /\ \A q \in Procs \ {p} : pc[q] = "idle"
     /\ calls = 2
     /\ SamplesOf(ret[p].room, ret[p].user) = {s}
     /\ \E t \in Samples \ {s} :
          <<ret[p].user,
            Event("location-confirmed", ret[p].room, ret[p].user, t)>>
            \in inbox
     /\ <<ret[p].user,
          Event("location-confirmed", ret[p].room, ret[p].user, s)>> \in inbox

\* worker p's send-message handler takes the step at label l
SendAt(p, l) == pc[p] = l /\ StepOf(p) /\ lv[p].op = "send"

\* the positions of the chat channel's messages in a topic
ChatAt(t) == {i \in 1..Len(t) : t[i].chan = "chat"}

\* the listener of the chat channel handles a message in this step
Delivers == Cardinality(ChatAt(topic')) < Cardinality(ChatAt(topic))

\* the chat message the listener handles: the oldest one
OldestChat == topic[MinOf(ChatAt(topic))].ev

\* C28: a send-message of a user without an active membership row of the
\* room ends at the check: nothing is appended and nothing is published.
\* The message of an active member is put once in the room's list, as its
\* head and under an id no stored message has, and is published once on
\* the chat channel of the room; the handler itself emits nothing.  When
\* the listener of the chat channel handles the message, every socket
\* that is in the room then, the sender's too, receives new-message, and
\* new-message reaches a socket in no other way.
C28_SendAppendsAndPublishesOnce ==
  /\ [][\A p \in Procs : (Refused(p) /\ pc[p] = "M_find") =>
          /\ pc'[p] = "done" /\ ret'[p].res = "NotAuthorized"
          /\ UNCHANGED <<kv_chat, topic, inbox>>]_vars
  /\ [][\A p \in Procs : SendAt(p, "M_push") =>
          /\ pc'[p] = "M_pub"
          /\ kv_chat' = [kv_chat EXCEPT ![lv[p].room] =
                           <<[id |-> lv'[p].n, user |-> lv[p].user]>> \o @]
          /\ \A i \in 1..Len(kv_chat[lv[p].room]) :
               kv_chat[lv[p].room][i].id # lv'[p].n
          /\ UNCHANGED <<topic, inbox>>]_vars
  /\ [][\A p \in Procs : SendAt(p, "M_pub") =>
          /\ pc'[p] = "done" /\ ret'[p].res = "ok"
          /\ topic' = Append(topic,
                        [chan |-> "chat",
                         ev |-> Event("new-message", lv[p].room, lv[p].user,
                                      lv[p].n)])
          /\ UNCHANGED <<kv_chat, inbox>>]_vars
  /\ [][Delivers =>
          /\ Cardinality(ChatAt(topic')) = Cardinality(ChatAt(topic)) - 1
          /\ \A u \in Users :
               <<OldestChat.room, u>> \in subs =>
                 <<u, OldestChat>> \in inbox']_vars
  /\ [][\A d \in inbox' \ inbox :
          d[2].type = "new-message" =>
            Delivers /\ d[2] = OldestChat /\ <<d[2].room, d[1]>> \in subs]_vars

\* both members are connected and in the room; one of them has sent a
\* message, the listener has handled it, and both have received it
C28_Witness ==
  \E p \in Procs :
     /\ pc[p] = "done" /\ ret[p].op = "send" /\ ret[p].res = "ok"
     /\ Len(kv_chat[ret[p].room]) = 1
     /\ kv_chat[ret[p].room][1].user = ret[p].user
     /\ ChatAt(topic) = {}
     /\ {<<ret[p].room, 1>>, <<ret[p].room, 2>>} \subseteq subs
     /\ \A u \in {1, 2} :
          <<u, Event("new-message", ret[p].room, ret[p].user,
                     kv_chat[ret[p].room][1].id)>> \in inbox

\* ------------------------------------------- generateRoomCode, throwing
\* mutant: a check that threw is tried again without being counted
G_throws_uncounted(p) ==
  /\ pc[p] \in {"G_db", "G_get", "G_set"}
  /\ Goto(p, "G_db", [lv[p] EXCEPT !.code = 0])
  /\ UNCHANGED <<dbVars, kv_lock, cacheVars, calls, scriptVars, sockVars>>

\* findUnique, get or setEx throws inside the loop's try: the catch logs
\* the error, and attempts++ runs as after a candidate that is taken
G_throws(p) ==
  /\ pc[p] \in {"G_db", "G_get", "G_set"}
  /\ NextAttempt(p)
  /\ UNCHANGED <<dbVars, kv_lock, cacheVars, calls, scriptVars, sockVars>>

\* worker p is inside generateRoomCode
InGenerate(p) == pc[p] \in {"G_db", "G_get", "G_set"}

\* a step of generateRoomCode: an awaited operation settles, with its
\* value or with an error
GenerateStep(p) == G_db(p) \/ G_get(p) \/ G_set(p) \/ G_throws(p)

\* SpecCode: two workers call createRoom on a fresh store, and the
\* operations generateRoomCode awaits may throw.  Every awaited operation
\* settles, so a worker inside generateRoomCode takes its next step.
MaxCodeCalls == 2

CodeStart(p) ==
  /\ calls < MaxCodeCalls
  /\ \E u \in Users, cap \in Caps : BeginCreate(p, u, cap)
  /\ UNCHANGED <<scriptVars, sockVars>>

CodeNext ==
  \E p \in Procs :
    \/ CodeStart(p)
    \/ G_db(p) \/ G_get(p) \/ G_set(p) \/ G_throws(p)
    \/ C_tx(p) \/ C_cache(p) \/ C_map(p)
    \/ Respond(p)

SpecCode ==
  Init /\ [][CodeNext]_vars /\ \A p \in Procs : WF_vars(GenerateStep(p))

\* C29: generateRoomCode ends.  Inside it the number of candidates given
\* up is below 10; a step of the loop either goes on with the same
\* candidate, or gives the candidate up and counts it (also when the check
\* threw), or returns the candidate with its reservation written, or,
\* giving up the tenth candidate, fails with AllocationExhausted; and a
\* worker inside generateRoomCode gets out of it.
C29_GenerateTerminates ==
  /\ [](\A p \in Procs : InGenerate(p) => lv[p].att \in 0..(maxAttempts - 1))
  /\ [][\A p \in Procs : (InGenerate(p) /\ StepOf(p)) =>
          \/ /\ pc[p] = "G_db" /\ pc'[p] = "G_get" /\ lv'[p].att = lv[p].att
          \/ /\ pc[p] = "G_get" /\ pc'[p] = "G_set" /\ lv'[p] = lv[p]
          \/ /\ pc'[p] = "G_db" /\ lv'[p].att = lv[p].att + 1
          \/ /\ pc[p] = "G_set" /\ pc'[p] = "C_tx" /\ lv'[p] = lv[p]
             /\ kv_code'[lv[p].code] = Reserved
          \/ /\ lv[p].att = maxAttempts - 1
             /\ pc'[p] = "done" /\ ret'[p].res = "AllocationExhausted"]_vars
  /\ \A p \in Procs : InGenerate(p) ~> ~InGenerate(p)

\* a createRoom failed with AllocationExhausted while no room exists and no
\* code is reserved: each of its ten candidates was given up on a throw
C29_Witness ==
  \E p \in Procs :
     /\ pc[p] = "done" /\ ret[p].op = "create"
     /\ ret[p].res = "AllocationExhausted"
     /\ ExistingRooms = {}
     /\ \A c \in Codes : kv_code[c] = Absent
     /\ \A q \in Procs \ {p} : pc[q] = "idle"
     /\ calls = 1

\* worker p's leave-room or disconnect handler takes the step at label l
DropAt(p, l) == pc[p] = l /\ StepOf(p)

\* the step leaves every member-set entry but (r, u) as it is
OnlyEntry(r, u) ==
  \A s \in RoomIds, v \in Users :
    <<s, v>> # <<r, u>> => ((v \in kv_mset'[s]) <=> (v \in kv_mset[s]))

\* the step leaves every location key but (r, u) as it is
OnlySample(r, u) ==
  \A s \in RoomIds, v \in Users :
    <<s, v>> # <<r, u>> => SamplesOf(s, v)' = SamplesOf(s, v)

\* the step publishes the event on the room's location channel and emits
\* it to the other sockets of the room
Announces(type, r, u) ==
  /\ topic' = Append(topic, [chan |-> "loc", ev |-> Event(type, r, u, 0)])
  /\ inbox' = inbox \cup {<<v, Event(type, r, u, 0)>> :
                            v \in {w \in Users \ {u} : <<r, w>> \in subs}}

\* C30: a leave-room event takes the socket out of the room, then removes
\* the user from the room's cached member set, then deletes the user's
\* location sample of the room, then publishes user-left.  A disconnect
\* does the same three things, publishing user-offline, for each room in
\* which the user has an active membership row.
C30_DropRemovesAndAnnounces ==
  /\ [][\A p \in Procs : DropAt(p, "V_leave") =>
          /\ pc'[p] = "V_srem" /\ lv'[p] = lv[p]
          /\ <<lv[p].room, lv[p].user>> \notin subs']_vars
  /\ [][\A p \in Procs : (DropAt(p, "V_srem") \/ DropAt(p, "D_srem")) =>
          /\ pc'[p] = (IF pc[p] = "V_srem" THEN "V_del" ELSE "D_del")
          /\ lv'[p] = lv[p]
          /\ lv[p].user \notin kv_mset'[lv[p].room]
          /\ OnlyEntry(lv[p].room, lv[p].user)
          /\ UNCHANGED kv_loc]_vars
  /\ [][\A p \in Procs : (DropAt(p, "V_del") \/ DropAt(p, "D_del")) =>
          /\ pc'[p] = (IF pc[p] = "V_del" THEN "V_pub" ELSE "D_pub")
          /\ lv'[p] = lv[p]
          /\ SamplesOf(lv[p].room, lv[p].user)' = {}
          /\ OnlySample(lv[p].room, lv[p].user)
          /\ UNCHANGED kv_mset]_vars
  /\ [][\A p \in Procs : DropAt(p, "V_pub") =>
          /\ Announces("user-left", lv[p].room, lv[p].user)
          /\ pc'[p] = "done" /\ ret'[p].res = "ok"]_vars
  /\ [][\A p \in Procs : DropAt(p, "D_find") =>
          /\ UNCHANGED <<kv_mset, kv_loc, topic, inbox>>
          /\ IF \E r \in RoomIds : IsActiveMember(r, lv[p].user)
             THEN /\ pc'[p] = "D_srem"
                  /\ lv'[p].todo =
                       {r \in RoomIds : IsActiveMember(r, lv[p].user)}
                  /\ lv'[p].room \in lv'[p].todo
             ELSE pc'[p] = "done"]_vars
  /\ [][\A p \in Procs : DropAt(p, "D_pub") =>
          /\ Announces("user-offline", lv[p].room, lv[p].user)
          /\ IF lv[p].todo = {lv[p].room}
             THEN pc'[p] = "done" /\ ret'[p].res = "ok"
             ELSE /\ pc'[p] = "D_srem"
                  /\ lv'[p].todo = lv[p].todo \ {lv[p].room}
                  /\ lv'[p].room \in lv'[p].todo]_vars

\* a member joined the room over the socket and sent a location, then
\* left the room: the sample and the entry are gone, and the other
\* member, in the room, has received user-left
C30_Witness ==
  \E p \in Procs, s \in Samples :
     /\ pc[p] = "done" /\ ret[p].op = "leave-room" /\ ret[p].res = "ok"
     /\ \A q \in Procs \ {p} : pc[q] = "idle"
     /\ <<ret[p].user, Event("joined-room", ret[p].room, ret[p].user, 0)>>
          \in inbox
     /\ <<ret[p].user,
          Event("location-confirmed", ret[p].room, ret[p].user, s)>>
          \in inbox
     /\ SamplesOf(ret[p].room, ret[p].user) = {}
     /\ ret[p].user \notin kv_mset[ret[p].room]
     /\ <<ret[p].room, ret[p].user>> \notin subs
     /\ \E v \in Users \ {ret[p].user} :
          <<v, Event("user-left", ret[p].room, ret[p].user, 0)>> \in inbox

C32_LeftMemberLeaveKeepsCount ==
  [][\A p \in Procs :
       (lv[p].op = "leave" /\ lv[p].flag /\ StepOf(p)) =>
         UNCHANGED kv_room]_vars

\* ------------------------------------------------- the cached count
\* no call is in progress
Quiet == \A p \in Procs : pc[p] \in {"idle", "done"}

\* C33: when no call is in progress, the memberCount of a cached snapshot
\* is the number of the room's member rows with status active.
C33_CachedCountMatchesRows ==
  Quiet =>
    \A r \in ExistingRooms :
      kv_room[r].present =>
        kv_room[r].memberCount = Cardinality(ActiveMembers(r))

\* ------------------------------------------------------- closed rooms
\* C34: in every reachable state a room with status closed has no member
\* row with status active.
C34_ClosedRoomHasNoActiveMember ==
  \A r \in ExistingRooms :
    rooms[r].status = "closed" => ActiveMembers(r) = {}

\* ------------------------------------------------------- active rooms
\* C35: when no call is in progress, a room with status active has at
\* least one member row with status active.
C35_ActiveRoomHasActiveMember ==
  Quiet =>
    \A r \in ExistingRooms :
      rooms[r].status = "active" => ActiveMembers(r) # {}

\* ------------------------------------------- the release of a code
\* the code's key holds the id of a room that exists with that code
MapsToRoom(c) ==
  kv_code[c] \in ExistingRooms /\ rooms[kv_code[c]].code = c

\* C36: the release a failing createRoom does leaves the mapping of a
\* code to a committed room of that code as it is.
C36_ReleaseKeepsCommittedMapping ==
  [][\A p \in Procs :
       (pc[p] = "C_fail" /\ StepOf(p) /\ MapsToRoom(lv[p].code)) =>
         kv_code'[lv[p].code] = kv_code[lv[p].code]]_vars

\* ------------------------------------------- REST calls and socket events
\* SpecPresence: the room of SpecSocket after a getRoomDetails of a member
\* filled the cache: the owner 1 and the member 2 active, 3 a member who
\* left, the sockets of 1 and 2 connected and in the room; the snapshot
\* with the member set, and the code mapping, are cached or have run out
\* of their TTL.  Two workers run joinRoom, leaveRoom and
\* getRoomDetails of the REST interface and the location-update,
\* send-message and disconnect handlers of the sockets.
MaxPresenceCalls == 3

PresenceInit ==
  \E cached \in BOOLEAN, mapped \in BOOLEAN :
    /\ rooms = [r \in RoomIds |->
                  IF r = LeaveRoomId
                  THEN NewRoomRow(MinOf(Codes), LeaveSize, 1)
                  ELSE NoRoom]
    /\ members = LeaveRows(1, {2})
    /\ kv_lock = [l \in LockKeys |-> Absent]
    /\ kv_code = [c \in Codes |->
                    IF c = MinOf(Codes) /\ mapped THEN LeaveRoomId ELSE Absent]
    /\ kv_room = [r \in RoomIds |->
                    IF r = LeaveRoomId /\ cached THEN DurableView(r)
                    ELSE NoSnap]
    /\ kv_mset = [r \in RoomIds |->
                    IF r = LeaveRoomId /\ cached THEN ActiveUsers(r)
                    ELSE {}]
    /\ kv_loc = {}
    /\ kv_chat = [r \in RoomIds |-> <<>>]
    /\ pc = [p \in Procs |-> "idle"]
    /\ lv = [p \in Procs |-> LvInit]
    /\ ret = [p \in Procs |-> RetInit]
    /\ calls = 0
    /\ script = <<>>
    /\ spos = 0
    /\ conn = ActiveUsers(LeaveRoomId)
    /\ subs = {<<LeaveRoomId, u>> : u \in ActiveUsers(LeaveRoomId)}
    /\ topic = <<>>
    /\ inbox = {}

PresenceStart(p) ==
  /\ calls < MaxPresenceCalls
  /\ \/ \E u \in LeaveUsers :
          \/ StartJoin(p, MinOf(Codes), u)
          \/ StartLeave(p, LeaveRoomId, u)
          \/ StartDetails(p, LeaveRoomId, u)
     \/ \E u \in {v \in conn : Listening(v)} :
          \/ /\ BeginLocate(p, LeaveRoomId, u)
             /\ UNCHANGED <<scriptVars, sockVars>>
          \/ /\ BeginSend(p, LeaveRoomId, u)
             /\ UNCHANGED <<scriptVars, sockVars>>
          \/ BeginDisconnect(p, u) /\ UNCHANGED scriptVars

PresenceNext ==
  \/ \E p \in Procs :
       \/ PresenceStart(p)
       \/ JoinStep(p) \/ LeaveStep(p) \/ DetailsStep(p) \/ TxAbort(p)
       \/ LocateStep(p) \/ SendStep(p) \/ DisconnectStep(p)
       \/ Respond(p)
  \/ SubChat
  \/ SubLoc

SpecPresence == PresenceInit /\ [][PresenceNext]_vars

\* user u has a member row of room r with status left and no leaveRoom or
\* joinRoom of u is in progress
HasLeft(r, u) ==
  /\ \E m \in RowsOf(r, u) : m.status = "left"
  /\ \A p \in Procs :
       ~(lv[p].op \in {"leave", "join"} /\ lv[p].user = u)

\* C37: while a user's member row of a room is left and no leaveRoom or
\* joinRoom of the user is running, no location sample is stored for
\* (room, user).
C37_NoSampleAfterLeave ==
  \A r \in ExistingRooms, u \in Users :
    HasLeft(r, u) => SamplesOf(r, u) = {}

\* --------------------------------------- socket events after the sweep
\* SpecLate: the rooms and sweeps of SpecSweep, and the owner's socket
\* goes on sending location-update and send-message when a sweep has
\* returned.
MaxLateCalls == 3

LateStart(p) ==
  /\ ~NoSweepYet
  /\ \A q \in Procs : lv[q].op # "cleanup"
  /\ calls < MaxLateCalls
  /\ \E r \in RoomIds :
       \/ BeginSend(p, r, SweepUser)
       \/ BeginLocate(p, r, SweepUser)
  /\ UNCHANGED <<scriptVars, sockVars>>

LateNext == SweepNext \/ \E p \in Procs : LateStart(p)

SpecLate == SweepInit /\ [][LateNext]_vars

\* the sweep has expired room r and is through with its keys
Swept(r) ==
  /\ rooms[r].exists /\ rooms[r].status = "expired"
  /\ \A p \in Procs : r \notin lv[p].todo

\* C38: once a sweep has expired and purged a room, a location-update or a
\* send-message for the room is refused at its check, and the room has no
\* location sample and no chat message.
C38_NothingStoredAfterSweep ==
  /\ [][\A p \in Procs :
          (pc[p] \in {"U_find", "M_find"} /\ StepOf(p)
             /\ Swept(lv[p].room)) =>
            pc'[p] = "done" /\ ret'[p].res = "NotAuthorized"]_vars
  /\ [](\A r \in RoomIds :
          Swept(r) => kv_chat[r] = <<>> /\ ~\E k \in kv_loc : k[1] = r)

\* --------------------------------------------- who receives the events
\* the step emits a chat or location event of a room to the socket of a
\* user who has left the room
EmitsToLeft ==
  \E d \in inbox' \ inbox :
    /\ d[2].type \in {"new-message", "location-updated"}
    /\ HasLeft(d[2].room, d[1])

\* C39: the socket of a user whose member row of a room is left (no
\* leaveRoom or joinRoom of the user running) is not in the socket.io room
\* of that room, and no chat or location event of the room is emitted to
\* it.
C39_LeftUserReceivesNothing ==
  /\ [](\A r \in ExistingRooms, u \in Users :
          HasLeft(r, u) => <<r, u>> \notin subs)
  /\ [][~EmitsToLeft]_vars

\* ------------------------------------------- cache path vs durable path
\* no joinRoom, leaveRoom or disconnect of the user is running
Settled(u) ==
  \A q \in Procs :
    ~(lv[q].op \in {"leave", "join", "disconnect"} /\ lv[q].user = u)

\* getRoomDetails answers on the cache path for an active member of the room
CacheAnswers(p) ==
  /\ pc[p] = "R_ismem" /\ pc'[p] = "done"
  /\ IsActiveMember(lv[p].room, lv[p].user)
  /\ Settled(lv[p].user)

\* C40: when getRoomDetails answers from the cached snapshot for a user who
\* is an active member in the durable store (no join, leave or disconnect of
\* the user running), the answer is not AccessDenied.
C40_CachePathAdmitsActiveMember ==
  [][\A p \in Procs : CacheAnswers(p) => ret'[p].res # "AccessDenied"]_vars

====
